---- MODULE Spec2Model ----
(***************************************************************************)
(* Performance aggregation and ranking engine of math-grellic-api.         *)
(*   PerformanceService  (src/src/modules/app.module.ts)                   *)
(*   ActivityService     (src/unnamed/part_002)                            *)
(* The state is the object graph one request has loaded (the roster, each  *)
(* student's completion arrays, the activity with its categories) plus the *)
(* value the called operation returned.  Arrays are sequences; the in-place*)
(* Array.prototype.sort calls of the source rewrite the loaded arrays.     *)
(* The activity store (create, update, deleteBySlug) is a set of rows per  *)
(* table, written by calls that advance from one await to the next.        *)
(***************************************************************************)
EXTENDS Integers, Sequences, FiniteSets, TLC

VARIABLES
    roster,               \* students: StudentUserAccount[] in fetch order (ids)
    examCompletions,      \* student.examCompletions, per student id
    activityCompletions,  \* student.activityCompletions, per student id
    activities,           \* the Activity rows of the teacher, with their categories
    allExams,             \* examService.getAllByStudentId: the assigned exams
    now,                  \* dayjs(): the current time
    op,                   \* the operation that has run on this snapshot
    arg,                  \* its argument (student or activity id), 0 when none
    result,               \* the value it returned
    error,                \* the exception it ended with, "none" when it returned
    accounts,             \* the StudentUserAccount rows: teacher and approval status
    rankingInputs,        \* the students arrays a performance lookup handed to the rankings
    activityRepo,         \* the Activity rows of the store
    categoryRows,         \* the ActivityCategory rows, saved through their activity
    activityCategoryQuestionRepo,        \* the question rows
    activityCategoryQuestionChoiceRepo,  \* the choice rows
    activityCategoryCompletionRepo,      \* the completion rows
    calls                 \* the create, update and deleteBySlug calls in progress

vars == <<roster, examCompletions, activityCompletions, activities, allExams, now,
          op, arg, result, error, accounts,
          rankingInputs, activityRepo, categoryRows, activityCategoryQuestionRepo,
          activityCategoryQuestionChoiceRepo, activityCategoryCompletionRepo, calls>>

(* the activity store and the calls that write it *)
storeVars == <<activityRepo, categoryRows, activityCategoryQuestionRepo,
               activityCategoryQuestionChoiceRepo, activityCategoryCompletionRepo, calls>>

(* the graph a read request has loaded, and what it returned *)
requestVars == <<roster, examCompletions, activityCompletions, activities, allExams, now,
                 op, arg, result, error, accounts, rankingInputs>>

(* what the ranking and summary operations of one loaded snapshot leave alone *)
otherVars == <<accounts, rankingInputs, storeVars>>

----------------------------------------------------------------------------
(* Bounds of the model *)

NumStudents == 3
MaxExamRows == 3
MaxActivityRows == 3
MaxScore == 2

(* JavaScript null, for score and rank fields (all real scores are >= 0) *)
Null == 0 - 1

StudentIds == 1..NumStudents
ExamIds == {1, 2}
Stamps == {1, 2}
Scores == 1..MaxScore

----------------------------------------------------------------------------
(* Array helpers *)

Range(s) == {s[i] : i \in DOMAIN s}

RECURSIVE SumSeq(_)
SumSeq(s) == IF s = <<>> THEN 0 ELSE Head(s) + SumSeq(Tail(s))

(* the elements of s at the indices in I, in index order *)
RECURSIVE PickIdx(_, _, _)
PickIdx(s, I, i) ==
    IF i > Len(s) THEN <<>>
    ELSE IF i \in I THEN <<s[i]>> \o PickIdx(s, I, i + 1)
    ELSE PickIdx(s, I, i + 1)

(* Array.prototype.sort: stable; before[a, b] iff the comparator is < 0 on *)
(* the elements a and b of s                                               *)
StableSort(s, before) ==
    LET n == Len(s)
        pos(i) == 1 + Cardinality({j \in 1..n :
                        \/ before[s[j], s[i]]
                        \/ (~before[s[i], s[j]] /\ j < i)})
    IN  [k \in 1..n |-> s[CHOOSE i \in 1..n : pos(i) = k]]

(* filter((x, index, array) => array.findIndex(y => Key(y) === Key(x)) === index) *)
(* key[x] is the value compared, for every element x of s                  *)
FirstPerKey(s, key) ==
    PickIdx(s, {i \in 1..Len(s) : \A j \in 1..(i - 1) : key[s[j]] # key[s[i]]}, 1)

(* rational numbers <<numerator, denominator>> in lowest terms, for the    *)
(* JavaScript numbers that need not be integers                            *)
RECURSIVE GCD(_, _)
GCD(a, b) == IF b = 0 THEN a ELSE GCD(b, a % b)

Rat(n, d) == LET g == GCD(n, d) IN <<n \div g, d \div g>>
RatAdd(p, q) == Rat(p[1] * q[2] + q[1] * p[2], p[2] * q[2])
RatInv(p) == Rat(p[2], p[1])
RatLess(p, q) == p[1] * q[2] < q[1] * p[2]

(* JavaScript null in a field that holds such a number *)
NoScore == <<0 - 1, 1>>

(* all sequences over S of length at most n *)
RECURSIVE SeqsUpTo(_, _)
SeqsUpTo(S, n) ==
    IF n = 0 THEN {<<>>}
    ELSE LET shorter == SeqsUpTo(S, n - 1)
         IN  shorter \cup {Append(t, x) : t \in {u \in shorter : Len(u) = n - 1}, x \in S}

----------------------------------------------------------------------------
(* Students.  Names are sequences of letter codes (A = 1 .. Z = 26, the    *)
(* space = 0), so that string comparison is a computation.                 *)

Ana == <<1, 14, 1>>
Ben == <<2, 5, 14>>
Cy == <<3, 25>>
Mae == <<13, 1, 5>>
Cruz == <<3, 18, 21, 26>>
Lee == <<12, 5, 5>>

(* the StudentUserAccount rows of one teacher *)
Student(id) ==
    CASE id = 1 -> [id |-> 1, firstName |-> Ben, middleName |-> <<>>, lastName |-> Cruz]
      [] id = 2 -> [id |-> 2, firstName |-> Ana, middleName |-> Mae, lastName |-> Cruz]
      [] id = 3 -> [id |-> 3, firstName |-> Ana, middleName |-> <<>>, lastName |-> Cruz]
      [] id = 4 -> [id |-> 4, firstName |-> Ana, middleName |-> <<>>, lastName |-> Cruz]
      [] OTHER -> [id |-> id, firstName |-> Cy, middleName |-> <<>>, lastName |-> Lee]

(* generateFullName(firstName, lastName, middleName): first, middle when    *)
(* present, last, separated by one space                                   *)
generateFullName(firstName, lastName, middleName) ==
    IF middleName = <<>> THEN firstName \o <<0>> \o lastName
    ELSE firstName \o <<0>> \o middleName \o <<0>> \o lastName

FullNameOf(id) ==
    generateFullName(Student(id).firstName, Student(id).lastName, Student(id).middleName)

(* a.localeCompare(b): negative, zero or positive; code-point order *)
RECURSIVE localeCompare(_, _)
localeCompare(a, b) ==
    IF a = <<>> /\ b = <<>> THEN 0
    ELSE IF a = <<>> THEN 0 - 1
    ELSE IF b = <<>> THEN 1
    ELSE IF Head(a) < Head(b) THEN 0 - 1
    ELSE IF Head(a) > Head(b) THEN 1
    ELSE localeCompare(Tail(a), Tail(b))

----------------------------------------------------------------------------
(* PerformanceService.generateOverallExamRankings *)

(* student.examCompletions.sort((a, b) => b.submittedAt - a.submittedAt) *)
SortBySubmittedAtDesc(completions) ==
    StableSort(completions,
        [a, b \in Range(completions) |-> b.submittedAt - a.submittedAt < 0])

(* a variant that keeps the completion loaded first instead of the latest *)
FirstLoadedExamCompletions(completions) ==
    FirstPerKey(completions, [c \in Range(completions) |-> c.exam])

(* .filter(first completion per exam id) of the sorted array *)
FilteredExamCompletions(completions) ==
    FirstPerKey(SortBySubmittedAtDesc(completions), [c \in Range(completions) |-> c.exam])

(* overallExamScore of one student: null without completion, else the sum *)
OverallExamScore(completions) ==
    LET filtered == FilteredExamCompletions(completions)
    IN  IF Len(filtered) = 0 THEN Null
        ELSE SumSeq([i \in 1..Len(filtered) |-> filtered[i].score])

ExamTransformedStudents(students) ==
    [i \in 1..Len(students) |->
        [id |-> students[i],
         overallExamScore |-> OverallExamScore(examCompletions[students[i]])]]

(* a variant that numbers the sorted students 1, 2, 3, ... without sharing *)
PositionRanks(scores, k, previousScore, currentRank) ==
    [i \in 1..Len(scores) |-> i]

(* the .map with the closure variables previousScore and currentRank:      *)
(* the ranks of sorted[k..], scores given as a sequence                    *)
RECURSIVE CompetitionRanks(_, _, _, _)
CompetitionRanks(scores, k, previousScore, currentRank) ==
    IF k > Len(scores) THEN <<>>
    ELSE LET rank == IF scores[k] # previousScore THEN k ELSE currentRank
         IN  <<rank>> \o CompetitionRanks(scores, k + 1, scores[k], rank)

(* a variant that compares first names only *)
SortByFirstName(entries) ==
    StableSort(entries,
        [a, b \in Range(entries) |->
            localeCompare(Student(a.id).firstName, Student(b.id).firstName) < 0])

(* .sort((a, b) => a fullname .localeCompare(b fullname)) *)
SortByFullName(entries) ==
    StableSort(entries,
        [a, b \in Range(entries) |-> localeCompare(FullNameOf(a.id), FullNameOf(b.id)) < 0])

ExamRankedStudents(transformed) ==
    LET scored == SelectSeq(transformed, LAMBDA s : s.overallExamScore # Null)
        sorted == StableSort(scored,
                      [a, b \in Range(scored) |->
                          b.overallExamScore - a.overallExamScore < 0])
        ranks == CompetitionRanks([k \in 1..Len(sorted) |-> sorted[k].overallExamScore],
                                  1, Null, Null)
    IN  [k \in 1..Len(sorted) |->
            [id |-> sorted[k].id,
             overallExamScore |-> sorted[k].overallExamScore,
             overallExamRank |-> ranks[k]]]

ExamUnrankedStudents(transformed) ==
    LET unscored == SortByFullName(
                        SelectSeq(transformed, LAMBDA s : s.overallExamScore = Null))
    IN  [k \in 1..Len(unscored) |->
            [id |-> unscored[k].id, overallExamScore |-> Null, overallExamRank |-> Null]]

(* the value generateOverallExamRankings(students) returns *)
OverallExamRankings(students) ==
    LET transformed == ExamTransformedStudents(students)
    IN  [rankedStudents |-> ExamRankedStudents(transformed),
         unrankedStudents |-> ExamUnrankedStudents(transformed)]

(* the examCompletions arrays after the call: sorted in place for every    *)
(* student of the argument                                                 *)
ExamCompletionsAfterRankings(students) ==
    [s \in DOMAIN examCompletions |->
        IF s \in Range(students) THEN SortBySubmittedAtDesc(examCompletions[s])
        ELSE examCompletions[s]]

generateOverallExamRankings ==
    /\ op = "loaded"
    /\ op' = "generateOverallExamRankings"
    /\ arg' = 0
    /\ result' = OverallExamRankings(roster)
    /\ error' = "none"
    /\ examCompletions' = ExamCompletionsAfterRankings(roster)
    /\ UNCHANGED <<roster, activityCompletions, activities, allExams, now>>
    /\ UNCHANGED otherVars


----------------------------------------------------------------------------
(* PerformanceService.generateOverallExamDetailedPerformance *)

(* the Exam rows: passing threshold and the start dates of the schedules *)
Exam(id) ==
    [id |-> id,
     passingPoints |-> IF id = 1 THEN 2 ELSE 1,
     schedules |-> IF id = 1 THEN <<1>> ELSE <<2>>]

(* not a number, for a percentage over a zero denominator *)
NaN == 0 - 2

(* +((count / total) * 100).toFixed(2), in hundredths of a percent *)
PercentToFixed2(count, total) ==
    IF total = 0 THEN NaN
    ELSE (((count * 100000) \div total) + 5) \div 10

AvailableExams(exams, currentDateTime) ==
    SelectSeq(exams, LAMBDA e :
        \E i \in DOMAIN Exam(e).schedules : Exam(e).schedules[i] <= currentDateTime)

(* student.examCompletions.filter(first completion per exam id), on the    *)
(* array as it was loaded                                                  *)
DetailedExamCompletions(completions) ==
    FirstPerKey(completions, [c \in Range(completions) |-> c.exam])

(* [student, ...otherStudents] *)
StudentThenOthers(student) ==
    <<student>> \o SelectSeq(roster, LAMBDA s : s # student)

FindStudent(rankings, student) ==
    LET all == rankings.rankedStudents \o rankings.unrankedStudents
    IN  all[CHOOSE i \in DOMAIN all : all[i].id = student]

(* generateOverallExamDetailedPerformance(student, otherStudents) *)
ExamDetailedPerformance(student, otherStudents) ==
    LET availableExams == AvailableExams(allExams, now)
        completions == DetailedExamCompletions(examCompletions[student])
        passed == SelectSeq(completions,
                      LAMBDA ec : ec.score >= Exam(ec.exam).passingPoints)
        failed == SelectSeq(completions,
                      LAMBDA ec : ec.score < Exam(ec.exam).passingPoints)
        expired == SelectSeq(availableExams,
                      LAMBDA e : ~\E i \in DOMAIN completions : completions[i].exam = e)
        found == FindStudent(OverallExamRankings(<<student>> \o otherStudents), student)
    IN  [currentExamCount |-> Len(availableExams),
         examsCompletedCount |-> Len(completions),
         examsPassedCount |-> Len(passed),
         examsFailedCount |-> Len(failed),
         examsExpiredCount |-> Len(expired),
         overallExamCompletionPercent |-> PercentToFixed2(Len(availableExams), Len(allExams)),
         overallExamRank |-> found.overallExamRank,
         overallExamScore |-> found.overallExamScore]

(* the same with the other students of the loaded roster *)
OverallExamDetailedPerformance(student) ==
    ExamDetailedPerformance(student, Tail(StudentThenOthers(student)))

generateOverallExamDetailedPerformance(student) ==
    /\ op = "loaded"
    /\ op' = "generateOverallExamDetailedPerformance"
    /\ arg' = student
    /\ result' = OverallExamDetailedPerformance(student)
    /\ error' = "none"
    /\ examCompletions' = ExamCompletionsAfterRankings(StudentThenOthers(student))
    /\ UNCHANGED <<roster, activityCompletions, activities, allExams, now>>
    /\ UNCHANGED otherVars

(* a second call with the same student and peer objects, after the first   *)
(* has returned; result keeps both summaries                               *)
repeatOverallExamDetailedPerformance ==
    /\ op = "generateOverallExamDetailedPerformance"
    /\ op' = "repeatOverallExamDetailedPerformance"
    /\ result' = <<result, OverallExamDetailedPerformance(arg)>>
    /\ error' = "none"
    /\ examCompletions' = ExamCompletionsAfterRankings(StudentThenOthers(arg))
    /\ UNCHANGED <<arg, roster, activityCompletions, activities, allExams, now>>
    /\ UNCHANGED otherVars

----------------------------------------------------------------------------
(* PerformanceService.generateOverallActivityRankings *)

(* the relations com.activityCategory and com.activityCategory.activity *)
ActivityOfCategory(categoryId) ==
    activities[CHOOSE a \in DOMAIN activities :
        \E c \in DOMAIN activities[a].categories :
            activities[a].categories[c].id = categoryId]

LevelOfCategory(categoryId) ==
    LET cats == ActivityOfCategory(categoryId).categories
    IN  cats[CHOOSE c \in DOMAIN cats : cats[c].id = categoryId].level

(* .filter(first completion per activity category id) of the sorted array *)
FilteredActivityCompletions(completions) ==
    FirstPerKey(SortBySubmittedAtDesc(completions),
        [c \in Range(completions) |-> c.activityCategory])

(* the value the callback of timeActivityIds.map returns for one activity:  *)
(* the mean over three levels, null (0 here, dropped by !!avgTime) otherwise *)
TimeActivityAverage(timeActivityCompletions, activityId) ==
    LET targetCompletions ==
            SelectSeq(timeActivityCompletions,
                LAMBDA com : ActivityOfCategory(com.activityCategory).id = activityId)
        filteredTargetCompletions ==
            FirstPerKey(targetCompletions,
                [com \in Range(targetCompletions) |->
                    LevelOfCategory(com.activityCategory)])
    IN  IF Len(filteredTargetCompletions) = 3
        THEN Rat(SumSeq([i \in 1..Len(filteredTargetCompletions) |->
                            filteredTargetCompletions[i].score]), 3)
        ELSE Rat(0, 1)

RECURSIVE SumOfReciprocals(_)
SumOfReciprocals(averages) ==
    IF averages = <<>> THEN Rat(0, 1)
    ELSE RatAdd(RatInv(Head(averages)), SumOfReciprocals(Tail(averages)))

TotalTimeScore(filtered) ==
    LET timeActivityCompletions ==
            SelectSeq(filtered,
                LAMBDA com : ActivityOfCategory(com.activityCategory).type = "time")
        ids == [i \in 1..Len(timeActivityCompletions) |->
                   ActivityOfCategory(timeActivityCompletions[i].activityCategory).id]
        timeActivityIds == FirstPerKey(ids, [id \in Range(ids) |-> id])
        averages == [i \in 1..Len(timeActivityIds) |->
                        TimeActivityAverage(timeActivityCompletions, timeActivityIds[i])]
    IN  SumOfReciprocals(SelectSeq(averages, LAMBDA avgTime : avgTime[1] # 0))

TotalPointLevelScore(filtered) ==
    LET poinLevelActivityCompletions ==
            SelectSeq(filtered,
                LAMBDA com : ActivityOfCategory(com.activityCategory).type # "time")
    IN  SumSeq([i \in 1..Len(poinLevelActivityCompletions) |->
                   poinLevelActivityCompletions[i].score])

OverallActivityScore(completions) ==
    LET filtered == FilteredActivityCompletions(completions)
    IN  IF Len(filtered) = 0 THEN NoScore
        ELSE RatAdd(Rat(TotalPointLevelScore(filtered), 1), TotalTimeScore(filtered))

ActivityTransformedStudents(students) ==
    [i \in 1..Len(students) |->
        [id |-> students[i],
         overallActivityScore |-> OverallActivityScore(activityCompletions[students[i]])]]

ActivityRankedStudents(transformed) ==
    LET scored == SelectSeq(transformed, LAMBDA s : s.overallActivityScore # NoScore)
        sorted == StableSort(scored,
                      [a, b \in Range(scored) |->
                          RatLess(b.overallActivityScore, a.overallActivityScore)])
        ranks == CompetitionRanks([k \in 1..Len(sorted) |-> sorted[k].overallActivityScore],
                                  1, NoScore, Null)
    IN  [k \in 1..Len(sorted) |->
            [id |-> sorted[k].id,
             overallActivityScore |-> sorted[k].overallActivityScore,
             overallActivityRank |-> ranks[k]]]

ActivityUnrankedStudents(transformed) ==
    LET unscored == SortByFullName(
                        SelectSeq(transformed, LAMBDA s : s.overallActivityScore = NoScore))
    IN  [k \in 1..Len(unscored) |->
            [id |-> unscored[k].id,
             overallActivityScore |-> NoScore,
             overallActivityRank |-> Null]]

(* the value generateOverallActivityRankings(students) returns *)
OverallActivityRankings(students) ==
    LET transformed == ActivityTransformedStudents(students)
    IN  [rankedStudents |-> ActivityRankedStudents(transformed),
         unrankedStudents |-> ActivityUnrankedStudents(transformed)]

(* the activityCompletions arrays after the call: sorted in place *)
ActivityCompletionsAfterRankings(students) ==
    [s \in DOMAIN activityCompletions |->
        IF s \in Range(students) THEN SortBySubmittedAtDesc(activityCompletions[s])
        ELSE activityCompletions[s]]

generateOverallActivityRankings ==
    /\ op = "loaded"
    /\ op' = "generateOverallActivityRankings"
    /\ arg' = 0
    /\ result' = OverallActivityRankings(roster)
    /\ error' = "none"
    /\ activityCompletions' = ActivityCompletionsAfterRankings(roster)
    /\ UNCHANGED <<roster, examCompletions, activities, allExams, now>>
    /\ UNCHANGED otherVars

----------------------------------------------------------------------------
(* PerformanceService.generateOverallActivityDetailedPerformance *)

(* the quotient of a positive number by zero *)
Infinity == 0 - 4

(* +((categoryCompletionCount / categoryCount) * 100).toFixed(2), in       *)
(* hundredths of a percent                                                 *)
ActivityPercent(categoryCompletionCount, categoryCount) ==
    IF categoryCount = 0
    THEN IF categoryCompletionCount = 0 THEN NaN ELSE Infinity
    ELSE (((categoryCompletionCount * 100000) \div categoryCount) + 5) \div 10

(* allActivities.reduce((total, activity) => total + activity.categories.length, 0) *)
CategoryCount(allActivities) ==
    SumSeq([a \in 1..Len(allActivities) |-> Len(allActivities[a].categories)])

(* the completions of sortedCompletions counted for one activity: those in *)
(* one of its categories, the first per category level                     *)
CountedCompletions(sortedCompletions, activity) ==
    LET inActivity == SelectSeq(sortedCompletions,
                          LAMBDA com : \E c \in DOMAIN activity.categories :
                              activity.categories[c].id = com.activityCategory)
    IN  FirstPerKey(inActivity,
            [com \in Range(inActivity) |-> LevelOfCategory(com.activityCategory)])

(* a variant that asks three levels of a stage activity too *)
CountsWhenThreeLevels(sortedCompletions, activity) ==
    Len(CountedCompletions(sortedCompletions, activity)) = 3

(* whether the forEach callback adds 1 for this activity *)
CountsAsCompleted(sortedCompletions, activity) ==
    LET completions == CountedCompletions(sortedCompletions, activity)
    IN  IF Len(completions) = 0 THEN FALSE
        ELSE IF activity.type = "stage" THEN TRUE
        ELSE Len(completions) = 3

(* ActivityService.getAllByStudentId: the published activities of the      *)
(* teacher of the student                                                  *)
getAllByStudentId(studentId) ==
    SelectSeq(activities, LAMBDA a : /\ a.teacher = accounts[studentId].teacherUser
                                     /\ a.status = "published")

(* generateOverallActivityDetailedPerformance(student, otherStudents) *)
ActivityDetailedPerformance(student, otherStudents) ==
    LET allActivities == getAllByStudentId(student)
        sortedCompletions == SortBySubmittedAtDesc(activityCompletions[student])
        rankings == OverallActivityRankings(<<student>> \o otherStudents)
        all == rankings.rankedStudents \o rankings.unrankedStudents
        found == all[CHOOSE i \in DOMAIN all : all[i].id = student]
        categoryCompletionCount ==
            Len(FirstPerKey(sortedCompletions,
                    [com \in Range(sortedCompletions) |-> com.activityCategory]))
    IN  [overallActivityRank |-> found.overallActivityRank,
         overallActivityScore |-> found.overallActivityScore,
         totalActivityCount |-> Len(allActivities),
         activitiesCompletedCount |->
             Cardinality({a \in DOMAIN allActivities :
                             CountsAsCompleted(sortedCompletions, allActivities[a])}),
         overallActivityCompletionPercent |->
             ActivityPercent(categoryCompletionCount, CategoryCount(allActivities))]

(* the same with the other students of the loaded roster *)
OverallActivityDetailedPerformance(student) ==
    ActivityDetailedPerformance(student, Tail(StudentThenOthers(student)))

generateOverallActivityDetailedPerformance(student) ==
    /\ op = "loaded"
    /\ op' = "generateOverallActivityDetailedPerformance"
    /\ arg' = student
    /\ result' = OverallActivityDetailedPerformance(student)
    /\ error' = "none"
    /\ activityCompletions' = ActivityCompletionsAfterRankings(StudentThenOthers(student))
    /\ UNCHANGED <<roster, examCompletions, activities, allExams, now>>
    /\ UNCHANGED otherVars

----------------------------------------------------------------------------
(* PerformanceService.getStudentPerformanceByPublicIdAndTeacherId and      *)
(* PerformanceService.getStudentPerformanceByStudentId                     *)

(* user.publicId of a student account, stored in upper case *)
PublicIdOf(id) ==
    CASE id = 1 -> "S1"
      [] id = 2 -> "S2"
      [] id = 3 -> "S3"
      [] OTHER -> "S0"

(* publicId.toUpperCase() *)
toUpperCase(publicId) ==
    CASE publicId = "s1" -> "S1"
      [] publicId = "s2" -> "S2"
      [] publicId = "s3" -> "S3"
      [] publicId = "s9" -> "S9"
      [] OTHER -> publicId

Approved(s) == accounts[s].approvalStatus = "approved"

(* findOne by teacher, upper-cased public id and approval: null when no row *)
FindOneByPublicId(publicId, teacherId) ==
    LET rows == SelectSeq(roster, LAMBDA s : /\ accounts[s].teacherUser = teacherId
                                             /\ PublicIdOf(s) = toUpperCase(publicId)
                                             /\ Approved(s))
    IN  IF rows = <<>> THEN Null ELSE rows[1]

(* a variant that leaves the teacher out of the condition *)
OtherStudentsOfAnyTeacher(publicId, teacherId) ==
    SelectSeq(roster, LAMBDA s : /\ PublicIdOf(s) # toUpperCase(publicId)
                                 /\ Approved(s))

(* find by teacher and approval, with publicId: Not(...) *)
OtherStudentsByPublicId(publicId, teacherId) ==
    SelectSeq(roster, LAMBDA s : /\ accounts[s].teacherUser = teacherId
                                 /\ PublicIdOf(s) # toUpperCase(publicId)
                                 /\ Approved(s))

(* findOne by id and approval: null when no row *)
FindOneById(studentId) ==
    LET rows == SelectSeq(roster, LAMBDA s : s = studentId /\ Approved(s))
    IN  IF rows = <<>> THEN Null ELSE rows[1]

(* find by the teacher of the student and approval, with id: Not(student.id) *)
OtherStudentsById(student) ==
    SelectSeq(roster, LAMBDA s : /\ s # student
                                 /\ accounts[s].teacherUser = accounts[student].teacherUser
                                 /\ Approved(s))

(* the position in students of the first one whose completions are not     *)
(* empty and came without the relation the ranking reads (item.exam.id,    *)
(* com.activityCategory.activity.game): 0 when there is none               *)
FirstUnloaded(students, completions, unloaded) ==
    LET at == {i \in DOMAIN students :
                  students[i] \in unloaded /\ completions[students[i]] # <<>>}
    IN  IF at = {} THEN 0 ELSE CHOOSE i \in at : \A j \in at : i <= j

(* {...transformedStudent, ...examPerformance, ...activityPerformance} *)
StudentPerformance(student, otherStudents) ==
    [id |-> student]
        @@ ExamDetailedPerformance(student, otherStudents)
        @@ ActivityDetailedPerformance(student, otherStudents)

(* what the two summaries do for a found student: the exam summary, then   *)
(* the activity summary; a completion without its relation ends the call   *)
(* with a TypeError inside the ranking                                     *)
PerformanceOutcome(student, otherStudents, withoutExam, withoutActivity) ==
    LET students == <<student>> \o otherStudents
        examAt == FirstUnloaded(students, examCompletions, withoutExam)
        activityAt == FirstUnloaded(students, activityCompletions, withoutActivity)
    IN  IF examAt # 0
        THEN [error |-> "TypeError", result |-> <<>>,
              examCompletions |-> ExamCompletionsAfterRankings(SubSeq(students, 1, examAt)),
              activityCompletions |-> activityCompletions,
              rankingInputs |-> <<students>>]
        ELSE IF activityAt # 0
        THEN [error |-> "TypeError", result |-> <<>>,
              examCompletions |-> ExamCompletionsAfterRankings(students),
              activityCompletions |->
                  ActivityCompletionsAfterRankings(SubSeq(students, 1, activityAt)),
              rankingInputs |-> <<students, students>>]
        ELSE [error |-> "none", result |-> StudentPerformance(student, otherStudents),
              examCompletions |-> ExamCompletionsAfterRankings(students),
              activityCompletions |-> ActivityCompletionsAfterRankings(students),
              rankingInputs |-> <<students, students>>]

(* throw new NotFoundException('Student not found') *)
StudentNotFound ==
    [error |-> "NotFound", result |-> <<>>,
     examCompletions |-> examCompletions,
     activityCompletions |-> activityCompletions,
     rankingInputs |-> <<>>]

(* every relation the rankings read is loaded for the student and the others *)
PerformanceByPublicIdAndTeacherId(publicId, teacherId) ==
    LET student == FindOneByPublicId(publicId, teacherId)
    IN  IF student = Null THEN StudentNotFound
        ELSE PerformanceOutcome(student, OtherStudentsByPublicId(publicId, teacherId),
                                {}, {})

(* the activity of a category is not loaded for the student, the exam of a *)
(* completion is not loaded for the other students                          *)
PerformanceByStudentId(studentId) ==
    LET student == FindOneById(studentId)
    IN  IF student = Null THEN StudentNotFound
        ELSE PerformanceOutcome(student, OtherStudentsById(student),
                                Range(OtherStudentsById(student)), {student})

getStudentPerformanceByPublicIdAndTeacherId(publicId, teacherId) ==
    LET outcome == PerformanceByPublicIdAndTeacherId(publicId, teacherId)
    IN  /\ op = "loaded"
        /\ op' = "getStudentPerformanceByPublicIdAndTeacherId"
        /\ arg' = <<publicId, teacherId>>
        /\ result' = outcome.result
        /\ error' = outcome.error
        /\ examCompletions' = outcome.examCompletions
        /\ activityCompletions' = outcome.activityCompletions
        /\ rankingInputs' = outcome.rankingInputs
        /\ UNCHANGED <<roster, activities, allExams, now, accounts>>
        /\ UNCHANGED storeVars

getStudentPerformanceByStudentId(studentId) ==
    LET outcome == PerformanceByStudentId(studentId)
    IN  /\ op = "loaded"
        /\ op' = "getStudentPerformanceByStudentId"
        /\ arg' = studentId
        /\ result' = outcome.result
        /\ error' = outcome.error
        /\ examCompletions' = outcome.examCompletions
        /\ activityCompletions' = outcome.activityCompletions
        /\ rankingInputs' = outcome.rankingInputs
        /\ UNCHANGED <<roster, activities, allExams, now, accounts>>
        /\ UNCHANGED storeVars

----------------------------------------------------------------------------
(* ActivityService.generateActivityRankings *)

(* activity.categories.sort((a, b) => b.updatedAt - a.updatedAt) *)
SortByUpdatedAtDesc(categories) ==
    StableSort(categories,
        [catA, catB \in Range(categories) |-> catB.updatedAt - catA.updatedAt < 0])

(* a variant that keeps the category loaded first at each level *)
FirstLoadedPerLevel(categories) ==
    FirstPerKey(categories, [cat \in Range(categories) |-> cat.level])

(* Remove duplicate category level *)
FilteredCategories(categories) ==
    FirstPerKey(SortByUpdatedAtDesc(categories), [cat \in Range(categories) |-> cat.level])

(* activityCategoryCompletionRepo.find: the student's completions in the   *)
(* categories with these ids                                               *)
TargetCompletions(studentId, categoryIds) ==
    SelectSeq(activityCompletions[studentId],
        LAMBDA com : com.activityCategory \in categoryIds)

SortByTimeAsc(completions) ==
    StableSort(completions,
        [comA, comB \in Range(completions) |->
            comA.timeCompletedSeconds - comB.timeCompletedSeconds < 0])

SortByScoreDesc(completions) ==
    StableSort(completions,
        [comA, comB \in Range(completions) |-> comB.score - comA.score < 0])

(* a variant without the sort by time *)
ListByScoreOnly(targetCompletions, categoryId) ==
    SortByScoreDesc(
        SelectSeq(targetCompletions, LAMBDA com : com.activityCategory = categoryId))

(* the list of one category for the point and stage types *)
PointList(targetCompletions, categoryId) ==
    SortByScoreDesc(SortByTimeAsc(
        SelectSeq(targetCompletions, LAMBDA com : com.activityCategory = categoryId)))

(* a variant that puts the highest score first *)
TimeListByScore(targetCompletions, categoryId) ==
    SortByScoreDesc(SortByTimeAsc(
        SelectSeq(targetCompletions, LAMBDA com : com.activityCategory = categoryId)))

(* the list of one category for the time type *)
TimeList(targetCompletions, categoryId) ==
    SortByTimeAsc(
        SelectSeq(targetCompletions, LAMBDA com : com.activityCategory = categoryId))

(* filteredCategories.reduce: the first of every non-empty list *)
BestPerCategory(lists) ==
    LET nonEmpty == SelectSeq(lists, LAMBDA list : Len(list) > 0)
    IN  [i \in 1..Len(nonEmpty) |-> nonEmpty[i][1]]

(* a variant that scores a student only when every category is completed *)
AllOrNothingPointData(studentId, filteredCategories, targetCompletions) ==
    LET completions == BestPerCategory([i \in 1..Len(filteredCategories) |->
                           PointList(targetCompletions, filteredCategories[i].id)])
    IN  [studentId |-> studentId,
         score |-> IF Len(completions) > 0 /\ Len(completions) = Len(filteredCategories)
                   THEN Rat(SumSeq([i \in 1..Len(completions) |-> completions[i].score]), 1)
                   ELSE NoScore,
         completions |-> completions]

PointStudentData(studentId, filteredCategories, targetCompletions) ==
    LET completions == BestPerCategory([i \in 1..Len(filteredCategories) |->
                           PointList(targetCompletions, filteredCategories[i].id)])
    IN  [studentId |-> studentId,
         score |-> IF Len(completions) > 0
                   THEN Rat(SumSeq([i \in 1..Len(completions) |-> completions[i].score]), 1)
                   ELSE NoScore,
         completions |-> completions]

TimeStudentData(studentId, filteredCategories, targetCompletions) ==
    LET completions == BestPerCategory([i \in 1..Len(filteredCategories) |->
                           TimeList(targetCompletions, filteredCategories[i].id)])
    IN  [studentId |-> studentId,
         score |-> IF Len(completions) > 0
                   THEN Rat(SumSeq([i \in 1..Len(completions) |->
                                       completions[i].timeCompletedSeconds]),
                            Len(completions))
                   ELSE NoScore,
         completions |-> completions]

(* a variant that takes the best completion of any eligible category *)
StageOverAllCategories(studentId, filteredCategories, targetCompletions) ==
    LET completions == SortByScoreDesc(SortByTimeAsc(targetCompletions))
    IN  [studentId |-> studentId,
         score |-> IF Len(completions) > 0 THEN Rat(completions[1].score, 1) ELSE NoScore,
         completions |-> completions]

(* targetCategory is filteredCategories[0], or null without categories;    *)
(* the filter callback reads targetCategory.id once per target completion  *)
StageStudentData(studentId, filteredCategories, targetCompletions) ==
    LET completions == IF filteredCategories = <<>> THEN <<>>
                       ELSE PointList(targetCompletions, filteredCategories[1].id)
    IN  [studentId |-> studentId,
         score |-> IF Len(completions) > 0 THEN Rat(completions[1].score, 1) ELSE NoScore,
         completions |-> completions]

StudentData(type, studentId, filteredCategories) ==
    LET categoryIds == {filteredCategories[i].id : i \in DOMAIN filteredCategories}
        targetCompletions == TargetCompletions(studentId, categoryIds)
    IN  IF type = "point"
        THEN PointStudentData(studentId, filteredCategories, targetCompletions)
        ELSE IF type = "time"
        THEN TimeStudentData(studentId, filteredCategories, targetCompletions)
        ELSE StageStudentData(studentId, filteredCategories, targetCompletions)

(* a variant in which equal scores share the rank of the first of them *)
WithSharedRanks(sorted) ==
    [k \in 1..Len(sorted) |->
        [studentId |-> sorted[k].studentId, score |-> sorted[k].score,
         completions |-> sorted[k].completions,
         rank |-> CHOOSE j \in 1..k :
                      /\ sorted[j].score = sorted[k].score
                      /\ \A i \in 1..(j - 1) : sorted[i].score # sorted[k].score]]

(* .map((data, index) => ({ ...data, rank: index + 1 })) *)
WithSequentialRanks(sorted) ==
    [k \in 1..Len(sorted) |->
        [studentId |-> sorted[k].studentId, score |-> sorted[k].score,
         completions |-> sorted[k].completions, rank |-> k]]

(* .map((data) => ({ ...data, rank: null })) *)
WithNullRanks(data) ==
    [k \in 1..Len(data) |->
        [studentId |-> data[k].studentId, score |-> data[k].score,
         completions |-> data[k].completions, rank |-> Null]]

(* a variant that orders the students without score by their full name *)
ScoreRankingsNamed(studentData) ==
    LET completeStudentData ==
            StableSort(SelectSeq(studentData, LAMBDA data : data.score # NoScore),
                [dataA, dataB \in Range(studentData) |-> RatLess(dataB.score, dataA.score)])
        incompleteStudentData ==
            StableSort(SelectSeq(studentData, LAMBDA data : data.score = NoScore),
                [dataA, dataB \in Range(studentData) |->
                    localeCompare(FullNameOf(dataA.studentId), FullNameOf(dataB.studentId)) < 0])
    IN  WithSequentialRanks(completeStudentData) \o WithNullRanks(incompleteStudentData)

(* Calculate student rankings: point and stage types *)
ScoreRankings(studentData) ==
    LET completeStudentData ==
            StableSort(SelectSeq(studentData, LAMBDA data : data.score # NoScore),
                [dataA, dataB \in Range(studentData) |-> RatLess(dataB.score, dataA.score)])
        incompleteStudentData == SelectSeq(studentData, LAMBDA data : data.score = NoScore)
    IN  WithSequentialRanks(completeStudentData) \o WithNullRanks(incompleteStudentData)

(* a variant that drops the students with fewer than three completions *)
TimeRankingsDropping(studentData) ==
    LET completeStudentData ==
            StableSort(SelectSeq(studentData,
                           LAMBDA data : data.score # NoScore /\ Len(data.completions) >= 3),
                [dataA, dataB \in Range(studentData) |-> RatLess(dataA.score, dataB.score)])
        incompleteStudentData == SelectSeq(studentData, LAMBDA data : data.score = NoScore)
    IN  WithSequentialRanks(completeStudentData) \o WithNullRanks(incompleteStudentData)

(* a variant that ranks every student with an average time *)
TimeRankingsUngated(studentData) ==
    LET completeStudentData ==
            StableSort(SelectSeq(studentData, LAMBDA data : data.score # NoScore),
                [dataA, dataB \in Range(studentData) |-> RatLess(dataA.score, dataB.score)])
        incompleteStudentData == SelectSeq(studentData, LAMBDA data : data.score = NoScore)
    IN  WithSequentialRanks(completeStudentData) \o WithNullRanks(incompleteStudentData)

(* Calculate student rankings: time type *)
TimeRankings(studentData) ==
    LET completeStudentData ==
            StableSort(SelectSeq(studentData,
                           LAMBDA data : data.score # NoScore /\ Len(data.completions) >= 3),
                [dataA, dataB \in Range(studentData) |-> RatLess(dataA.score, dataB.score)])
        incompleteStudentData ==
            SelectSeq(studentData,
                LAMBDA data : data.score = NoScore \/ Len(data.completions) < 3)
    IN  WithSequentialRanks(completeStudentData) \o WithNullRanks(incompleteStudentData)

(* the value generateActivityRankings(activity, teacherId) returns *)
ActivityRankings(act, students) ==
    LET filteredCategories == FilteredCategories(act.categories)
        studentData == [i \in 1..Len(students) |->
                           StudentData(act.type, students[i], filteredCategories)]
    IN  IF act.type = "time" THEN TimeRankings(studentData)
        ELSE ScoreRankings(studentData)

(* a variant in which the stage branch reads targetCategory.id for every  *)
(* student, outside the filter callback                                    *)
ThrowsForEveryStudent(act, students) ==
    /\ act.type \notin {"point", "time"}
    /\ FilteredCategories(act.categories) = <<>>
    /\ Len(students) > 0

(* the stage branch reads targetCategory.id of a null targetCategory when  *)
(* the filter callback runs, that is for a student with a target completion *)
ActivityRankingsThrows(act, students) ==
    LET filteredCategories == FilteredCategories(act.categories)
        categoryIds == {filteredCategories[i].id : i \in DOMAIN filteredCategories}
    IN  /\ act.type \notin {"point", "time"}
        /\ filteredCategories = <<>>
        /\ \E i \in DOMAIN students : TargetCompletions(students[i], categoryIds) # <<>>

(* activity.categories after the in-place sort *)
ActivitiesAfterCategorySort(a) ==
    [activities EXCEPT ![a].categories = SortByUpdatedAtDesc(activities[a].categories)]

generateActivityRankings(a) ==
    /\ op = "loaded"
    /\ op' = "generateActivityRankings"
    /\ arg' = a
    /\ IF ActivityRankingsThrows(activities[a], roster)
       THEN result' = <<>> /\ error' = "TypeError"
       ELSE result' = ActivityRankings(activities[a], roster) /\ error' = "none"
    /\ activities' = ActivitiesAfterCategorySort(a)
    /\ UNCHANGED <<roster, examCompletions, activityCompletions, allExams, now>>
    /\ UNCHANGED otherVars

----------------------------------------------------------------------------
(* ActivityService.generateActivityWithCompletions *)

(* JavaScript undefined, for a property an object does not have *)
Undefined == 0 - 3

(* !!x of a number, null or undefined *)
Truthy(x) == x \notin {0, Null, NaN, Undefined}

(* completions: !!completions.length ? completions[0] : []  -- written     *)
(* <<com>> for the completion object com and <<>> for the empty array      *)
SelectedOrEmpty(completions) ==
    IF Truthy(Len(completions)) THEN <<completions[1]>> ELSE <<>>

(* cat.completions.length: 0 for the empty array, undefined for a          *)
(* completion object, which has no such property                           *)
LengthOf(catCompletions) == IF catCompletions = <<>> THEN 0 ELSE Undefined

(* { ...cat, completions } *)
WithCompletions(cat, catCompletions) ==
    [id |-> cat.id, level |-> cat.level, updatedAt |-> cat.updatedAt,
     completions |-> catCompletions]

CatWithCompletions(categories) ==
    SelectSeq(categories, LAMBDA cat : Truthy(LengthOf(cat.completions)))

(* the categories of the returned activity *)
SummaryCategories(type, filteredCategories, targetCompletions) ==
    IF type = "point"
    THEN [i \in 1..Len(filteredCategories) |->
            WithCompletions(filteredCategories[i],
                SelectedOrEmpty(PointList(targetCompletions, filteredCategories[i].id)))]
    ELSE IF type = "time"
    THEN [i \in 1..Len(filteredCategories) |->
            WithCompletions(filteredCategories[i],
                SelectedOrEmpty(TimeList(targetCompletions, filteredCategories[i].id)))]
    ELSE IF filteredCategories = <<>> THEN <<>>
    ELSE <<WithCompletions(filteredCategories[1],
              SelectedOrEmpty(PointList(targetCompletions, filteredCategories[1].id)))>>

(* reading [0] of a category's completion object gives undefined, and      *)
(* reading .score or .timeCompletedSeconds of undefined throws; the stage  *)
(* branch reads with ?. and reads targetCategory.id in the filter callback *)
SummaryThrows(type, filteredCategories, targetCompletions) ==
    IF type \in {"point", "time"}
    THEN CatWithCompletions(
             SummaryCategories(type, filteredCategories, targetCompletions)) # <<>>
    ELSE filteredCategories = <<>> /\ targetCompletions # <<>>

(* cat.completions[0]: undefined, of the empty array and of a completion   *)
(* object alike                                                            *)
ElementZero(catCompletions) ==
    IF catCompletions = <<>> THEN Undefined ELSE Undefined

(* let score = null, assigned by the point and time branches only when     *)
(* catWithCompletions.length is truthy (the reduce then throws); the stage *)
(* branch assigns catWithCompletions[0]?.completions[0]?.score || null     *)
SummaryScore(type, categories) ==
    LET catWithCompletions == CatWithCompletions(categories)
    IN  IF type \in {"point", "time"} THEN NoScore
        ELSE IF catWithCompletions = <<>> THEN NoScore
        ELSE IF ElementZero(catWithCompletions[1].completions) = Undefined THEN NoScore
        ELSE Rat(catWithCompletions[1].completions[1].score, 1)

(* the value generateActivityWithCompletions(activity, studentId) returns *)
ActivityWithCompletions(act, studentId) ==
    LET filteredCategories == FilteredCategories(act.categories)
        categoryIds == {filteredCategories[i].id : i \in DOMAIN filteredCategories}
        targetCompletions == TargetCompletions(studentId, categoryIds)
    IN  [id |-> act.id, type |-> act.type,
         categories |-> SummaryCategories(act.type, filteredCategories, targetCompletions),
         score |-> SummaryScore(act.type,
                       SummaryCategories(act.type, filteredCategories, targetCompletions))]

ActivityWithCompletionsThrows(act, studentId) ==
    LET filteredCategories == FilteredCategories(act.categories)
        categoryIds == {filteredCategories[i].id : i \in DOMAIN filteredCategories}
    IN  SummaryThrows(act.type, filteredCategories,
                      TargetCompletions(studentId, categoryIds))

generateActivityWithCompletions(a, studentId) ==
    /\ op = "loaded"
    /\ op' = "generateActivityWithCompletions"
    /\ arg' = <<a, studentId>>
    /\ IF ActivityWithCompletionsThrows(activities[a], studentId)
       THEN result' = <<>> /\ error' = "TypeError"
       ELSE result' = ActivityWithCompletions(activities[a], studentId) /\ error' = "none"
    /\ activities' = ActivitiesAfterCategorySort(a)
    /\ UNCHANGED <<roster, examCompletions, activityCompletions, allExams, now>>
    /\ UNCHANGED otherVars

----------------------------------------------------------------------------
(* ActivityService.create, update and deleteBySlug over the activity       *)
(* store.  A call advances from one await to the next; calls[p].pc is the  *)
(* await the call p is suspended at.                                       *)

(* the tables one call starts from *)
Snapshot ==
    [activities |-> activityRepo, categories |-> categoryRows,
     questions |-> activityCategoryQuestionRepo,
     choices |-> activityCategoryQuestionChoiceRepo,
     completions |-> activityCategoryCompletionRepo]

NoActivity ==
    [id |-> 0, slug |-> "", teacher |-> 0, orderNumber |-> 0,
     categories |-> {}, questions |-> {}, choices |-> {}]

NoDto == [orderNumber |-> 0, categories |-> <<>>]

(* a call that has not started *)
IdleCall ==
    [op |-> "none", pc |-> "idle", teacherId |-> 0, slug |-> "", dto |-> NoDto,
     activity |-> NoActivity, position |-> 0, error |-> "none", id |-> 0,
     affected |-> FALSE,
     before |-> [activities |-> {}, categories |-> {}, questions |-> {},
                 choices |-> {}, completions |-> {}]]

(* the values of ActivityCategoryLevel *)
ActivityCategoryLevel == {1, 2, 3}

(* the highest id of a table; the next row gets the following number *)
MaxId(rows) ==
    IF rows = {} THEN 0
    ELSE CHOOSE m \in {r.id : r \in rows} : \A r \in rows : r.id <= m

(* the slug the subscriber gives to a new activity *)
SlugOf(id) ==
    CASE id = 1 -> "a"
      [] id = 2 -> "b"
      [] id = 3 -> "c"
      [] id = 4 -> "d"
      [] OTHER -> "e"

(* activityRepo.count({ where: { orderNumber, teacher } }) *)
OrderNumberCount(orderNumber, teacherId) ==
    Cardinality({a \in activityRepo :
                    a.orderNumber = orderNumber /\ a.teacher = teacherId})

(* activityRepo.count({ where: { orderNumber, slug: Not(slug), teacher } }) *)
OrderNumberCountExcept(orderNumber, slug, teacherId) ==
    Cardinality({a \in activityRepo :
                    a.orderNumber = orderNumber /\ a.slug # slug /\ a.teacher = teacherId})

(* some level of the enumeration is the level of more than one category *)
DuplicateCategoryLevel(categories) ==
    \E level \in ActivityCategoryLevel :
        Cardinality({k \in DOMAIN categories : categories[k].level = level}) > 1

(* some question has no choice with isCorrect *)
MissingCorrectChoice(categories) ==
    \E k \in DOMAIN categories : \E q \in DOMAIN categories[k].questions :
        ~\E ch \in DOMAIN categories[k].questions[q].choices :
            categories[k].questions[q].choices[ch].isCorrect

(* the error the checks after the count end with, "none" when they pass *)
ValidationError(orderNumberCount, categories) ==
    IF orderNumberCount # 0 THEN "Conflict"
    ELSE IF DuplicateCategoryLevel(categories) THEN "BadRequest"
    ELSE IF MissingCorrectChoice(categories) THEN "BadRequest"
    ELSE "none"

(* the rows activityRepo.findOne matches by slug and teacher *)
MatchingActivities(slug, teacherId) ==
    {a \in activityRepo : a.slug = slug /\ a.teacher = teacherId}

(* the activity with its categories, questions and choices, as loaded *)
LoadActivity(a) ==
    LET cats == {c \in categoryRows : c.activity = a.id}
        qs == {q \in activityCategoryQuestionRepo : q.category \in {c.id : c \in cats}}
    IN  [id |-> a.id, slug |-> a.slug, teacher |-> a.teacher,
         orderNumber |-> a.orderNumber, categories |-> cats, questions |-> qs,
         choices |-> {ch \in activityCategoryQuestionChoiceRepo :
                         ch.question \in {q.id : q \in qs}}]

(* the positions of the questions and of the choices of a request *)
QuestionPositions(categories) ==
    {kq \in (1..2) \X (1..2) :
        /\ kq[1] \in DOMAIN categories
        /\ kq[2] \in DOMAIN categories[kq[1]].questions}

ChoicePositions(categories) ==
    {kqc \in (1..2) \X (1..2) \X (1..2) :
        /\ <<kqc[1], kqc[2]>> \in QuestionPositions(categories)
        /\ kqc[3] \in DOMAIN categories[kqc[1]].questions[kqc[2]].choices}

(* the place of a position among the positions that get a new row *)
PlaceIn(positions, x) ==
    Cardinality({y \in positions :
        \/ y = x
        \/ \E i \in DOMAIN x : y[i] < x[i] /\ \A j \in 1..(i - 1) : y[j] = x[j]})

----------------------------------------------------------------------------
(* create(activityDto, teacherId) *)

(* lines 467-536: the count of the order number, then the checks *)
createCount(p, activityDto, teacherId) ==
    LET failure == ValidationError(OrderNumberCount(activityDto.orderNumber, teacherId),
                                   activityDto.categories)
    IN  /\ calls[p].pc = "idle"
        /\ calls' = [calls EXCEPT ![p] =
               [@ EXCEPT !.op = "create", !.teacherId = teacherId, !.dto = activityDto,
                         !.before = Snapshot, !.error = failure,
                         !.pc = IF failure = "none" THEN "save" ELSE "done"]]
        /\ UNCHANGED <<activityRepo, categoryRows, activityCategoryQuestionRepo,
                       activityCategoryQuestionChoiceRepo, activityCategoryCompletionRepo>>
        /\ UNCHANGED requestVars

(* the rows activityRepo.save inserts for the categories of a new activity *)
CreatedCategories(categories, activityId) ==
    {[id |-> MaxId(categoryRows) + k, activity |-> activityId,
      level |-> categories[k].level] : k \in DOMAIN categories}

CreatedQuestions(categories) ==
    {[id |-> MaxId(activityCategoryQuestionRepo)
                 + PlaceIn(QuestionPositions(categories), kq),
      category |-> MaxId(categoryRows) + kq[1]] : kq \in QuestionPositions(categories)}

CreatedChoices(categories) ==
    {[id |-> MaxId(activityCategoryQuestionChoiceRepo)
                 + PlaceIn(ChoicePositions(categories), kqc),
      question |-> MaxId(activityCategoryQuestionRepo)
                       + PlaceIn(QuestionPositions(categories), <<kqc[1], kqc[2]>>),
      isCorrect |-> categories[kqc[1]].questions[kqc[2]].choices[kqc[3]].isCorrect] :
        kqc \in ChoicePositions(categories)}

(* lines 538-559: the save of the new activity, then the query that returns it *)
createSave(p) ==
    LET call == calls[p]
        id == MaxId(activityRepo) + 1
    IN  /\ call.op = "create" /\ call.pc = "save"
        /\ activityRepo' = activityRepo \cup
               {[id |-> id, slug |-> SlugOf(id), teacher |-> call.teacherId,
                 orderNumber |-> call.dto.orderNumber]}
        /\ categoryRows' = categoryRows \cup CreatedCategories(call.dto.categories, id)
        /\ activityCategoryQuestionRepo' =
               activityCategoryQuestionRepo \cup CreatedQuestions(call.dto.categories)
        /\ activityCategoryQuestionChoiceRepo' =
               activityCategoryQuestionChoiceRepo \cup CreatedChoices(call.dto.categories)
        /\ calls' = [calls EXCEPT ![p] = [@ EXCEPT !.pc = "done", !.id = id]]
        /\ UNCHANGED activityCategoryCompletionRepo
        /\ UNCHANGED requestVars

----------------------------------------------------------------------------
(* update(slug, activityDto, teacherId) *)

(* lines 567-584: the activity is loaded with its categories *)
updateFindOne(p, slug, activityDto, teacherId) ==
    LET found == MatchingActivities(slug, teacherId)
    IN  /\ calls[p].pc = "idle"
        /\ calls' = [calls EXCEPT ![p] =
               [@ EXCEPT !.op = "update", !.teacherId = teacherId, !.slug = slug,
                         !.dto = activityDto, !.before = Snapshot,
                         !.activity = IF found = {} THEN NoActivity
                                      ELSE LoadActivity(CHOOSE a \in found : TRUE),
                         !.error = IF found = {} THEN "NotFound" ELSE "none",
                         !.pc = IF found = {} THEN "done" ELSE "count"]]
        /\ UNCHANGED <<activityRepo, categoryRows, activityCategoryQuestionRepo,
                       activityCategoryQuestionChoiceRepo, activityCategoryCompletionRepo>>
        /\ UNCHANGED requestVars

(* lines 627-630, and 719-724 up to the first await, for the category at   *)
(* position k of the request: sourceCategory.questions of a category the   *)
(* activity does not have is a TypeError; past the last category the       *)
(* request goes on to the save                                             *)
EnterCategory(call, k) ==
    IF k > Len(call.dto.categories) THEN [call EXCEPT !.pc = "save"]
    ELSE IF ~\E c \in call.activity.categories : c.id = call.dto.categories[k].id
    THEN [call EXCEPT !.pc = "done", !.error = "TypeError"]
    ELSE [call EXCEPT !.pc = "removeQuestions", !.position = k]

(* lines 588-624: the count of the order number, then the checks *)
updateCount(p) ==
    LET call == calls[p]
        failure == ValidationError(
                       OrderNumberCountExcept(call.dto.orderNumber, call.slug, call.teacherId),
                       call.dto.categories)
    IN  /\ call.op = "update" /\ call.pc = "count"
        /\ calls' = [calls EXCEPT ![p] =
               IF failure = "none" THEN EnterCategory(call, 1)
               ELSE [call EXCEPT !.pc = "done", !.error = failure]]
        /\ UNCHANGED <<activityRepo, categoryRows, activityCategoryQuestionRepo,
                       activityCategoryQuestionChoiceRepo, activityCategoryCompletionRepo>>
        /\ UNCHANGED requestVars

(* questions.filter((q) => !!q.id).map((q) => q.id) *)
TargetQuestionIds(cat) ==
    {cat.questions[q].id : q \in {i \in DOMAIN cat.questions : cat.questions[i].id # 0}}

(* sourceCategory.questions.filter((q) => !targetQuestionIds.includes(q.id)) *)
QuestionsToDelete(activity, cat) ==
    {q \in activity.questions : q.category = cat.id /\ q.id \notin TargetQuestionIds(cat)}

(* lines 722-725: the questions left out of the request are removed, their *)
(* choices with them                                                       *)
updateRemoveQuestions(p) ==
    LET call == calls[p]
        cat == call.dto.categories[call.position]
        gone == {q.id : q \in QuestionsToDelete(call.activity, cat)}
    IN  /\ call.op = "update" /\ call.pc = "removeQuestions"
        /\ activityCategoryQuestionRepo' =
               {q \in activityCategoryQuestionRepo : q.id \notin gone}
        /\ activityCategoryQuestionChoiceRepo' =
               {ch \in activityCategoryQuestionChoiceRepo : ch.question \notin gone}
        /\ calls' = [calls EXCEPT ![p] = [@ EXCEPT !.pc = "removeChoices"]]
        /\ UNCHANGED <<activityRepo, categoryRows, activityCategoryCompletionRepo>>
        /\ UNCHANGED requestVars

(* the questions of the request whose id is not one of sourceCategory:     *)
(* currentQuestion.choices is a TypeError for them                         *)
MissingQuestions(activity, cat) ==
    {id \in TargetQuestionIds(cat) :
        ~\E q \in activity.questions : q.category = cat.id /\ q.id = id}

(* currentQuestion.choices.filter((c) => !targetChoiceIds.includes(c.id)),  *)
(* over the questions of the request the category has                       *)
ChoicesToDelete(activity, cat) ==
    {ch \in activity.choices :
        \E q \in DOMAIN cat.questions :
            /\ cat.questions[q].id # 0
            /\ \E source \in activity.questions :
                   source.category = cat.id /\ source.id = cat.questions[q].id
            /\ ch.question = cat.questions[q].id
            /\ ~\E c \in DOMAIN cat.questions[q].choices :
                   /\ cat.questions[q].choices[c].id # 0
                   /\ cat.questions[q].choices[c].id = ch.id}

(* lines 728-746: every callback of the map issues its removal before the  *)
(* Promise.all settles, so the choices go also when one callback throws;   *)
(* then the next category of the request                                   *)
updateRemoveChoices(p) ==
    LET call == calls[p]
        cat == call.dto.categories[call.position]
        gone == {ch.id : ch \in ChoicesToDelete(call.activity, cat)}
    IN  /\ call.op = "update" /\ call.pc = "removeChoices"
        /\ activityCategoryQuestionChoiceRepo' =
               {ch \in activityCategoryQuestionChoiceRepo : ch.id \notin gone}
        /\ calls' = [calls EXCEPT ![p] =
               IF MissingQuestions(call.activity, cat) # {}
               THEN [call EXCEPT !.pc = "done", !.error = "TypeError"]
               ELSE EnterCategory(call, call.position + 1)]
        /\ UNCHANGED <<activityRepo, categoryRows, activityCategoryQuestionRepo,
                       activityCategoryCompletionRepo>>
        /\ UNCHANGED requestVars

(* the questions and choices of the request without an id, which the save  *)
(* inserts                                                                 *)
NewQuestionPositions(categories) ==
    {kq \in QuestionPositions(categories) : categories[kq[1]].questions[kq[2]].id = 0}

NewChoicePositions(categories) ==
    {kqc \in ChoicePositions(categories) :
        categories[kqc[1]].questions[kqc[2]].choices[kqc[3]].id = 0}

SavedQuestions(categories) ==
    {[id |-> MaxId(activityCategoryQuestionRepo)
                 + PlaceIn(NewQuestionPositions(categories), kq),
      category |-> categories[kq[1]].id] : kq \in NewQuestionPositions(categories)}

SavedChoices(categories) ==
    {[id |-> MaxId(activityCategoryQuestionChoiceRepo)
                 + PlaceIn(NewChoicePositions(categories), kqc),
      question |->
          IF categories[kqc[1]].questions[kqc[2]].id # 0
          THEN categories[kqc[1]].questions[kqc[2]].id
          ELSE MaxId(activityCategoryQuestionRepo)
                   + PlaceIn(NewQuestionPositions(categories), <<kqc[1], kqc[2]>>),
      isCorrect |-> categories[kqc[1]].questions[kqc[2]].choices[kqc[3]].isCorrect] :
        kqc \in NewChoicePositions(categories)}

(* lines 671-691: save({...activity, ...moreActivityDto, categories}) writes *)
(* the row of the loaded id with the order number of the request and the   *)
(* categories of the request, then the query that returns it               *)
updateSave(p) ==
    LET call == calls[p]
        cats == call.dto.categories
        ids == {cats[k].id : k \in DOMAIN cats}
    IN  /\ call.op = "update" /\ call.pc = "save"
        /\ activityRepo' = {a \in activityRepo : a.id # call.activity.id} \cup
               {[id |-> call.activity.id, slug |-> call.activity.slug,
                 teacher |-> call.activity.teacher,
                 orderNumber |-> call.dto.orderNumber]}
        /\ categoryRows' = {c \in categoryRows : c.id \notin ids} \cup
               {[id |-> cats[k].id, activity |-> call.activity.id,
                 level |-> cats[k].level] : k \in DOMAIN cats}
        /\ activityCategoryQuestionRepo' =
               activityCategoryQuestionRepo \cup SavedQuestions(cats)
        /\ activityCategoryQuestionChoiceRepo' =
               activityCategoryQuestionChoiceRepo \cup SavedChoices(cats)
        /\ calls' = [calls EXCEPT ![p] = [@ EXCEPT !.pc = "done", !.id = call.activity.id]]
        /\ UNCHANGED activityCategoryCompletionRepo
        /\ UNCHANGED requestVars

----------------------------------------------------------------------------
(* deleteBySlug(slug, teacherId) *)

(* line 695, getOneBySlugAndTeacherId lines 382-423 *)
deleteGetOne(p, slug, teacherId) ==
    LET found == MatchingActivities(slug, teacherId)
    IN  /\ calls[p].pc = "idle"
        /\ calls' = [calls EXCEPT ![p] =
               [@ EXCEPT !.op = "deleteBySlug", !.teacherId = teacherId, !.slug = slug,
                         !.before = Snapshot,
                         !.activity = IF found = {} THEN NoActivity
                                      ELSE LoadActivity(CHOOSE a \in found : TRUE),
                         !.error = IF found = {} THEN "NotFound" ELSE "none",
                         !.pc = IF found = {} THEN "done" ELSE "count"]]
        /\ UNCHANGED <<activityRepo, categoryRows, activityCategoryQuestionRepo,
                       activityCategoryQuestionChoiceRepo, activityCategoryCompletionRepo>>
        /\ UNCHANGED requestVars

(* a variant that never finds a completion *)
NeverHasCompletion(categoryIds) == FALSE

(* !!(await activityCategoryCompletionRepo.count({ activityCategory: In(categoryIds) })) *)
HasCompletion(categoryIds) ==
    \E com \in activityCategoryCompletionRepo : com.activityCategory \in categoryIds

(* lines 701-709 *)
deleteCount(p) ==
    LET call == calls[p]
        categoryIds == {c.id : c \in call.activity.categories}
    IN  /\ call.op = "deleteBySlug" /\ call.pc = "count"
        /\ calls' = [calls EXCEPT ![p] =
               IF HasCompletion(categoryIds)
               THEN [call EXCEPT !.pc = "done", !.error = "BadRequest"]
               ELSE [call EXCEPT !.pc = "delete"]]
        /\ UNCHANGED <<activityRepo, categoryRows, activityCategoryQuestionRepo,
                       activityCategoryQuestionChoiceRepo, activityCategoryCompletionRepo>>
        /\ UNCHANGED requestVars

(* lines 711-712: activityRepo.delete({ slug }) removes the rows of that   *)
(* slug, their categories, questions and choices with them                 *)
deleteDelete(p) ==
    LET call == calls[p]
        gone == {a.id : a \in {x \in activityRepo : x.slug = call.slug}}
        goneCategories == {c.id : c \in {x \in categoryRows : x.activity \in gone}}
        goneQuestions == {q.id : q \in {x \in activityCategoryQuestionRepo :
                                           x.category \in goneCategories}}
    IN  /\ call.op = "deleteBySlug" /\ call.pc = "delete"
        /\ activityRepo' = {a \in activityRepo : a.id \notin gone}
        /\ categoryRows' = {c \in categoryRows : c.id \notin goneCategories}
        /\ activityCategoryQuestionRepo' =
               {q \in activityCategoryQuestionRepo : q.id \notin goneQuestions}
        /\ activityCategoryQuestionChoiceRepo' =
               {ch \in activityCategoryQuestionChoiceRepo : ch.question \notin goneQuestions}
        /\ calls' = [calls EXCEPT ![p] = [@ EXCEPT !.pc = "done", !.affected = gone # {}]]
        /\ UNCHANGED activityCategoryCompletionRepo
        /\ UNCHANGED requestVars

----------------------------------------------------------------------------
(* Snapshots a request can load *)

GameTypes == {"point", "time", "stage"}

ExamCompletionRows ==
    [exam : ExamIds, score : Scores, submittedAt : Stamps]

(* a completion table: rows tagged with their student, in load order *)
Tables(rows, maxRows) ==
    SeqsUpTo([student : StudentIds, row : rows], maxRows)

RowsOf(table, s) ==
    LET mine == SelectSeq(table, LAMBDA r : r.student = s)
    IN  [i \in 1..Len(mine) |-> mine[i].row]

Ascending == [i \in 1..NumStudents |-> i]
Descending == [i \in 1..NumStudents |-> NumStudents + 1 - i]
RosterOrders == {Ascending, Descending}

NoCompletions == [s \in StudentIds |-> <<>>]

(* the three levels of an activity, one category each *)
ThreeLevels(firstId) ==
    [i \in 1..3 |-> [id |-> firstId + i - 1, level |-> i, updatedAt |-> 1]]

(* no activity store and no call on it *)
NoStore ==
    /\ activityRepo = {}
    /\ categoryRows = {}
    /\ activityCategoryQuestionRepo = {}
    /\ activityCategoryQuestionChoiceRepo = {}
    /\ activityCategoryCompletionRepo = {}
    /\ calls = <<>>

Idle ==
    /\ op = "loaded"
    /\ arg = 0
    /\ result = <<>>
    /\ error = "none"
    /\ rankingInputs = <<>>
    /\ NoStore

(* every student an approved student of teacher 1 *)
OneTeacher ==
    accounts = [s \in StudentIds |-> [teacherUser |-> 1, approvalStatus |-> "approved"]]

(* the exam track: up to MaxExamRows exam completions *)
InitExamTrack ==
    /\ roster \in RosterOrders
    /\ \E table \in Tables(ExamCompletionRows, MaxExamRows) :
          examCompletions = [s \in StudentIds |-> RowsOf(table, s)]
    /\ activityCompletions = NoCompletions
    /\ activities = <<>>
    /\ allExams = <<1, 2>>
    /\ now = 1
    /\ OneTeacher
    /\ Idle

(* the activity track: a time activity with its three levels and a point   *)
(* activity with one category; a completion takes ten seconds per level    *)
TrackActivities ==
    <<[id |-> 1, teacher |-> 1, status |-> "published", type |-> "time", categories |-> ThreeLevels(1)],
      [id |-> 2, teacher |-> 1, status |-> "published", type |-> "point",
       categories |-> <<[id |-> 4, level |-> 1, updatedAt |-> 1]>>]>>

TrackCompletionRows ==
    {[activityCategory |-> c, score |-> s, submittedAt |-> t,
      timeCompletedSeconds |-> 10 * (IF c = 4 THEN 1 ELSE c)] :
        c \in 1..4, s \in Scores, t \in Stamps}

(* at most one completion per category, every one with the same score *)
RECURSIVE OnePerCategory(_, _, _)
OnePerCategory(done, score, c) ==
    IF c > 4 THEN <<>>
    ELSE IF ~done[c] THEN OnePerCategory(done, score, c + 1)
    ELSE <<[activityCategory |-> c, score |-> score, submittedAt |-> 1,
            timeCompletedSeconds |-> 10 * (IF c = 4 THEN 1 ELSE c)]>>
         \o OnePerCategory(done, score, c + 1)

OnePerCategoryRows ==
    {OnePerCategory(done, score, 1) : done \in [1..4 -> BOOLEAN], score \in Scores}

(* every student with at most one completion per category *)
InitActivityRoster ==
    activityCompletions \in [StudentIds -> OnePerCategoryRows]

(* one student with up to MaxActivityRows completions, repeated ones included *)
InitActivityAttempts ==
    \E rows \in SeqsUpTo(TrackCompletionRows, MaxActivityRows) :
        activityCompletions = [s \in StudentIds |-> IF s = 1 THEN rows ELSE <<>>]

InitActivityTrack ==
    /\ roster = Ascending
    /\ InitActivityRoster \/ InitActivityAttempts
    /\ examCompletions = NoCompletions
    /\ activities = TrackActivities
    /\ allExams = <<>>
    /\ now = 1
    /\ OneTeacher
    /\ Idle

(* the unit track: one activity of any game type with its three levels;    *)
(* rankUnit reads score and timeCompletedSeconds only                      *)
UnitActivities ==
    {<<[id |-> 1, teacher |-> 1, status |-> "published", type |-> type, categories |-> ThreeLevels(1)]>> : type \in GameTypes}

UnitCompletionRows ==
    {[activityCategory |-> c, score |-> s, submittedAt |-> 1,
      timeCompletedSeconds |-> d] : c \in 1..3, s \in Scores, d \in Stamps}

(* at most one completion per level, as fast as it scores *)
RECURSIVE OnePerLevel(_, _)
OnePerLevel(choice, c) ==
    IF c > 3 THEN <<>>
    ELSE IF choice[c] = 0 THEN OnePerLevel(choice, c + 1)
    ELSE <<[activityCategory |-> c, score |-> choice[c], submittedAt |-> 1,
            timeCompletedSeconds |-> choice[c]]>> \o OnePerLevel(choice, c + 1)

OnePerLevelRows == {OnePerLevel(choice, 1) : choice \in [1..3 -> {0} \cup Scores]}

(* every student with at most one completion per level *)
InitUnitRoster ==
    /\ roster = Ascending
    /\ activityCompletions \in [StudentIds -> OnePerLevelRows]

(* one student with up to MaxActivityRows completions, repeated attempts included *)
InitUnitAttempts ==
    /\ roster \in RosterOrders
    /\ \E rows \in SeqsUpTo(UnitCompletionRows, MaxActivityRows) :
          activityCompletions = [s \in StudentIds |-> IF s = 1 THEN rows ELSE <<>>]

(* an activity whose categories were all removed: no completion refers to it *)
EmptyActivities ==
    {<<[id |-> 1, teacher |-> 1, status |-> "published", type |-> type, categories |-> <<>>]>> : type \in GameTypes}

InitUnitEmpty ==
    /\ roster \in RosterOrders
    /\ activityCompletions = NoCompletions
    /\ activities \in EmptyActivities

InitUnitTrack ==
    /\ \/ (InitUnitRoster \/ InitUnitAttempts) /\ activities \in UnitActivities
       \/ InitUnitEmpty
    /\ examCompletions = NoCompletions
    /\ allExams = <<>>
    /\ now = 1
    /\ OneTeacher
    /\ Idle

(* the category track: an activity of any stored game type, one outside    *)
(* the three known ones included, with up to three categories whose levels *)
(* and update times may repeat; one student with up to two completions     *)
StoredTypes == GameTypes \cup {"other"}

CategoryLists ==
    UNION {[1..n -> [level : 1..2, updatedAt : Stamps]] : n \in 0..3}

WithIds(list) ==
    [i \in 1..Len(list) |-> [id |-> i, level |-> list[i].level,
                              updatedAt |-> list[i].updatedAt]]

(* a second activity of the teacher, with one category *)
OtherActivity ==
    [id |-> 2, teacher |-> 1, status |-> "published", type |-> "point", categories |-> <<[id |-> 4, level |-> 1, updatedAt |-> 1]>>]

CategoryActivities ==
    {<<[id |-> 1, teacher |-> 1, status |-> "published", type |-> type, categories |-> WithIds(list)], OtherActivity>> :
        type \in StoredTypes, list \in CategoryLists}

(* completions in the first n categories, and one in the other activity *)
CategoryCompletionRows(n) ==
    {[activityCategory |-> c, score |-> s, submittedAt |-> 1,
      timeCompletedSeconds |-> d] : c \in 1..n, s \in Scores, d \in Stamps}
    \cup {[activityCategory |-> 4, score |-> 1, submittedAt |-> 1,
           timeCompletedSeconds |-> 1]}

InitCategoryTrack ==
    /\ roster = <<1, 2>>
    /\ activities \in CategoryActivities
    /\ \E rows \in SeqsUpTo(CategoryCompletionRows(Len(activities[1].categories)), 2) :
          activityCompletions = [s \in StudentIds |-> IF s = 1 THEN rows ELSE <<>>]
    /\ examCompletions = NoCompletions
    /\ allExams = <<>>
    /\ now = 1
    /\ OneTeacher
    /\ Idle

(* the selection track: an activity with its three levels; one student     *)
(* with up to MaxActivityRows + 1 attempts, a slow high-scoring one and a  *)
(* fast low-scoring one among them, and one with all or none of the levels *)
SelectCompletionRows ==
    {[activityCategory |-> c, score |-> st[1], submittedAt |-> 1,
      timeCompletedSeconds |-> st[2]] : c \in 1..3, st \in {<<2, 1>>, <<1, 1>>, <<2, 2>>}}

AllLevelsRows(value) ==
    [c \in 1..3 |-> [activityCategory |-> c, score |-> value, submittedAt |-> 1,
                      timeCompletedSeconds |-> value]]

InitSelectTrack ==
    /\ roster = Ascending
    /\ \E rows \in SeqsUpTo(SelectCompletionRows, MaxActivityRows + 1) :
       \E peer \in {<<>>, AllLevelsRows(1), AllLevelsRows(2)} :
          activityCompletions =
              [s \in StudentIds |-> IF s = 1 THEN rows ELSE IF s = 2 THEN peer ELSE <<>>]
    /\ activities \in UnitActivities
    /\ examCompletions = NoCompletions
    /\ allExams = <<>>
    /\ now = 1
    /\ OneTeacher
    /\ Idle

(* the summary track: one assigned activity of any stored game type with   *)
(* one to three categories, two of them of one level in one case; one      *)
(* student with up to MaxActivityRows completions in them                  *)
LevelLists == {<<1, 2, 3>>, <<1, 2>>, <<1>>, <<1, 1, 2>>}

WithLevels(levels) ==
    [i \in 1..Len(levels) |-> [id |-> i, level |-> levels[i], updatedAt |-> 1]]

SummaryCompletionRows(n) ==
    {[activityCategory |-> c, score |-> s, submittedAt |-> t,
      timeCompletedSeconds |-> 1] : c \in 1..n, s \in Scores, t \in Stamps}

InitSummaryTrack ==
    /\ roster = Ascending
    /\ \E type \in StoredTypes : \E levels \in LevelLists :
       \E rows \in SeqsUpTo(SummaryCompletionRows(Len(levels)), MaxActivityRows) :
          /\ activities = <<[id |-> 1, teacher |-> 1, status |-> "published", type |-> type, categories |-> WithLevels(levels)]>>
          /\ activityCompletions = [s \in StudentIds |-> IF s = 1 THEN rows ELSE <<>>]
    /\ examCompletions = NoCompletions
    /\ allExams = <<>>
    /\ now = 1
    /\ OneTeacher
    /\ Idle

(* the scope track: students of two teachers, approved or not, with the    *)
(* two activities of the activity track and at most one completion each    *)
TeacherIds == {1, 2}

AccountRows == [teacherUser : TeacherIds, approvalStatus : {"approved", "pending"}]

OneExamRow == <<[exam |-> 1, score |-> 1, submittedAt |-> 1]>>

InitScopeTrack ==
    /\ roster \in RosterOrders
    /\ accounts \in [StudentIds -> AccountRows]
    /\ examCompletions \in [StudentIds -> {<<>>, OneExamRow}]
    /\ \E rows \in {<<>>, OnePerCategory([c \in 1..4 |-> c = 4], 1, 1)} :
          activityCompletions = [s \in StudentIds |-> IF s = 1 THEN rows ELSE <<>>]
    /\ activities = TrackActivities
    /\ allExams = <<1, 2>>
    /\ now = 1
    /\ Idle

(* the percent track: a point activity with up to two categories and a     *)
(* stage activity with one, published or not, the second one of another    *)
(* teacher in one case, or no activity at all; with or without assigned    *)
(* exams; one student with a completion in any of the categories           *)
PercentActivities ==
    {<<[id |-> 1, teacher |-> 1, status |-> status, type |-> "point",
        categories |-> WithLevels(levels)],
       [id |-> 2, teacher |-> owner[1], status |-> owner[2], type |-> "stage",
        categories |-> <<[id |-> 3, level |-> 1, updatedAt |-> 1]>>]>> :
        status \in {"published", "draft"},
        levels \in {<<>>, <<1>>, <<1, 2>>},
        owner \in {<<1, "published">>, <<1, "draft">>, <<2, "published">>}}
    \cup {<<>>}

(* the ids of the categories the activities have *)
CategoryIdsOf(acts) ==
    UNION {{acts[a].categories[c].id : c \in DOMAIN acts[a].categories} : a \in DOMAIN acts}

RECURSIVE OneIn(_, _)
OneIn(categoryIds, c) ==
    IF c > 3 THEN <<>>
    ELSE IF c \notin categoryIds THEN OneIn(categoryIds, c + 1)
    ELSE <<[activityCategory |-> c, score |-> 1, submittedAt |-> 1,
            timeCompletedSeconds |-> 1]>> \o OneIn(categoryIds, c + 1)

(* one completion in each category of a set, or two attempts in one category *)
PercentCompletionRows(acts) ==
    {OneIn(done, 1) : done \in SUBSET CategoryIdsOf(acts)}
    \cup {OneIn({c}, 1) \o OneIn({c}, 1) : c \in CategoryIdsOf(acts)}

InitPercentTrack ==
    /\ roster = Ascending
    /\ OneTeacher
    /\ allExams \in {<<>>, <<1, 2>>}
    /\ \E mine \in SeqsUpTo(ExamCompletionRows, 1) : \E theirs \in {<<>>, OneExamRow} :
          examCompletions =
              [s \in StudentIds |-> IF s = 1 THEN mine ELSE IF s = 2 THEN theirs ELSE <<>>]
    /\ activities \in PercentActivities
    /\ \E mine \in PercentCompletionRows(activities) :
       \E theirs \in {OneIn(done, 1) : done \in SUBSET (CategoryIdsOf(activities) \cap {3})} :
          activityCompletions =
              [s \in StudentIds |-> IF s = 1 THEN mine ELSE IF s = 2 THEN theirs ELSE <<>>]
    /\ now = 1
    /\ Idle

(* the store tracks: two activities of teacher 1 and one of teacher 2,     *)
(* with completions in some of their categories; one call, or two calls    *)
(* that interleave at their awaits                                         *)
StoredActivities ==
    {[id |-> 1, slug |-> "a", teacher |-> 1, orderNumber |-> 1],
     [id |-> 2, slug |-> "b", teacher |-> 1, orderNumber |-> 2],
     [id |-> 3, slug |-> "c", teacher |-> 2, orderNumber |-> 1]}

StoredCategories ==
    {[id |-> 1, activity |-> 1, level |-> 1], [id |-> 2, activity |-> 1, level |-> 2],
     [id |-> 3, activity |-> 2, level |-> 1], [id |-> 4, activity |-> 3, level |-> 1]}

StoredQuestions ==
    {[id |-> 1, category |-> 1], [id |-> 2, category |-> 1], [id |-> 3, category |-> 2],
     [id |-> 4, category |-> 3], [id |-> 5, category |-> 4]}

StoredChoices ==
    {[id |-> 1, question |-> 1, isCorrect |-> TRUE],
     [id |-> 2, question |-> 1, isCorrect |-> FALSE],
     [id |-> 3, question |-> 2, isCorrect |-> TRUE],
     [id |-> 4, question |-> 3, isCorrect |-> TRUE],
     [id |-> 5, question |-> 4, isCorrect |-> TRUE],
     [id |-> 6, question |-> 5, isCorrect |-> TRUE]}

StoredCompletions ==
    {[id |-> 1, activityCategory |-> 2], [id |-> 2, activityCategory |-> 3]}

(* no read request on a store track *)
NoRequest ==
    /\ roster = <<>>
    /\ examCompletions = NoCompletions
    /\ activityCompletions = NoCompletions
    /\ activities = <<>>
    /\ allExams = <<>>
    /\ now = 1
    /\ op = "none"
    /\ arg = 0
    /\ result = <<>>
    /\ error = "none"
    /\ rankingInputs = <<>>
    /\ OneTeacher

InitStore ==
    /\ activityRepo = StoredActivities
    /\ categoryRows = StoredCategories
    /\ activityCategoryQuestionRepo = StoredQuestions
    /\ activityCategoryQuestionChoiceRepo = StoredChoices
    /\ activityCategoryCompletionRepo \in SUBSET StoredCompletions
    /\ NoRequest

InitStoreTrack == InitStore /\ calls = <<IdleCall>>

InitConcurrentTrack == InitStore /\ calls = <<IdleCall, IdleCall>>

Init ==
    \/ InitStoreTrack
    \/ InitConcurrentTrack
    \/ InitScopeTrack
    \/ InitPercentTrack
    \/ InitSummaryTrack
    \/ InitExamTrack
    \/ InitActivityTrack
    \/ InitUnitTrack
    \/ InitCategoryTrack
    \/ InitSelectTrack

NextExam ==
    \/ generateOverallExamRankings
    \/ \E student \in Range(roster) : generateOverallExamDetailedPerformance(student)

NextActivity == generateOverallActivityRankings

NextUnit == \E a \in DOMAIN activities : generateActivityRankings(a)

NextRoster == generateOverallExamRankings \/ generateOverallActivityRankings

NextSummary ==
    \E a \in DOMAIN activities : \E i \in DOMAIN roster :
        generateActivityWithCompletions(a, roster[i])

NextDetail ==
    \E student \in Range(roster) : generateOverallActivityDetailedPerformance(student)

(* the requests: a public id in either letter case, known or not, with a   *)
(* teacher id; a student id, known or not                                  *)
PublicIds == {"S1", "s2", "S3", "S9"}

NextLookup ==
    \/ \E publicId \in PublicIds : \E teacherId \in TeacherIds :
          getStudentPerformanceByPublicIdAndTeacherId(publicId, teacherId)
    \/ \E studentId \in 1..(NumStudents + 1) : getStudentPerformanceByStudentId(studentId)

(* the requests on the store.  A question and a choice of a create request *)
(* have no id; in an update request the id 0 stands for a missing id.      *)
OrderNumbers == {1, 2, 3}

Slugs == {"a", "b", "c", "z"}

NewQuestion(isCorrect) ==
    [id |-> 0, choices |-> <<[id |-> 0, isCorrect |-> isCorrect]>>]

NewCategory(level, isCorrect) ==
    [level |-> level, questions |-> <<NewQuestion(isCorrect)>>]

(* no category, one category, two of the same level, one whose question    *)
(* has no correct choice                                                    *)
CreateCategoryLists ==
    {<<>>, <<NewCategory(1, TRUE)>>, <<NewCategory(1, TRUE), NewCategory(1, TRUE)>>,
     <<NewCategory(2, FALSE)>>}

CreateDtos ==
    [orderNumber : OrderNumbers,
     categories : IF Len(calls) = 1 THEN CreateCategoryLists
                  ELSE {<<NewCategory(1, TRUE)>>}]

(* category 1 of activity "a" with both questions and every choice *)
KeepAll ==
    [id |-> 1, level |-> 1,
     questions |-> <<[id |-> 1, choices |-> <<[id |-> 1, isCorrect |-> TRUE],
                                              [id |-> 2, isCorrect |-> FALSE]>>],
                     [id |-> 2, choices |-> <<[id |-> 3, isCorrect |-> TRUE]>>]>>]

(* category 1 without question 2 and without choice 2 *)
DropSome ==
    [id |-> 1, level |-> 1,
     questions |-> <<[id |-> 1, choices |-> <<[id |-> 1, isCorrect |-> TRUE]>>]>>]

(* category 2 of activity "a", at its level or at the level of category 1 *)
SecondCategory(level) ==
    [id |-> 2, level |-> level,
     questions |-> <<[id |-> 3, choices |-> <<[id |-> 4, isCorrect |-> TRUE]>>]>>]

(* category 1 with only the wrong choice of question 1 *)
NoCorrectChoice ==
    [id |-> 1, level |-> 1,
     questions |-> <<[id |-> 1, choices |-> <<[id |-> 2, isCorrect |-> FALSE]>>]>>]

(* a category no activity of the store has *)
UnknownCategory ==
    [id |-> 9, level |-> 3, questions |-> <<NewQuestion(TRUE)>>]

(* category 1 with question 3, which is a question of category 2 *)
ForeignQuestion ==
    [id |-> 1, level |-> 1,
     questions |-> <<[id |-> 3, choices |-> <<[id |-> 4, isCorrect |-> TRUE]>>]>>]

(* category 1 with question 1 and a new question *)
AddedQuestion ==
    [id |-> 1, level |-> 1,
     questions |-> <<[id |-> 1, choices |-> <<[id |-> 1, isCorrect |-> TRUE],
                                              [id |-> 0, isCorrect |-> FALSE]>>],
                     NewQuestion(TRUE)>>]

UpdateCategoryLists ==
    {<<>>, <<KeepAll, SecondCategory(2)>>, <<DropSome, SecondCategory(2)>>, <<DropSome>>,
     <<KeepAll, SecondCategory(1)>>, <<NoCorrectChoice>>, <<UnknownCategory>>,
     <<DropSome, UnknownCategory>>, <<ForeignQuestion>>, <<AddedQuestion>>}

UpdateDtos ==
    [orderNumber : OrderNumbers,
     categories : IF Len(calls) = 1 THEN UpdateCategoryLists ELSE {<<>>, <<DropSome>>}]

NextStore ==
    \/ \E p \in DOMAIN calls : \E activityDto \in CreateDtos : \E teacherId \in TeacherIds :
          createCount(p, activityDto, teacherId)
    \/ \E p \in DOMAIN calls : createSave(p)
    \/ \E p \in DOMAIN calls : \E slug \in Slugs : \E activityDto \in UpdateDtos :
       \E teacherId \in TeacherIds : updateFindOne(p, slug, activityDto, teacherId)
    \/ \E p \in DOMAIN calls : updateCount(p)
    \/ \E p \in DOMAIN calls : updateRemoveQuestions(p)
    \/ \E p \in DOMAIN calls : updateRemoveChoices(p)
    \/ \E p \in DOMAIN calls : updateSave(p)
    \/ \E p \in DOMAIN calls : \E slug \in Slugs : \E teacherId \in TeacherIds :
          deleteGetOne(p, slug, teacherId)
    \/ \E p \in DOMAIN calls : deleteCount(p)
    \/ \E p \in DOMAIN calls : deleteDelete(p)

Next ==
    \/ NextStore
    \/ NextLookup
    \/ NextExam
    \/ NextActivity
    \/ NextUnit
    \/ NextSummary
    \/ NextDetail
    \/ repeatOverallExamDetailedPerformance

Spec == Init /\ [][Next]_vars

(* the exam, activity and unit tracks under the three ranking operations *)
SpecRankings ==
    (InitExamTrack \/ InitActivityTrack \/ InitUnitTrack) /\ [][NextRoster \/ NextUnit]_vars

(* the exam track under the exam operations *)
SpecExam == InitExamTrack /\ [][NextExam]_vars

(* the activity track under the overall activity ranking *)
SpecActivity == InitActivityTrack /\ [][NextActivity]_vars

(* the unit track under the per-unit ranking *)
SpecUnit == InitUnitTrack /\ [][NextUnit]_vars

(* the category track under the two per-unit operations *)
SpecCategory == InitCategoryTrack /\ [][NextUnit \/ NextSummary]_vars

(* the selection track under the two per-unit operations *)
SpecSelect == InitSelectTrack /\ [][NextUnit \/ NextSummary]_vars

(* the summary track under the activity summary of a student *)
SpecSummary == InitSummaryTrack /\ [][NextDetail]_vars

(* the exam track with a second call of the exam summary *)
SpecRepeat == InitExamTrack /\ [][NextExam \/ repeatOverallExamDetailedPerformance]_vars

(* one call on the activity store *)
SpecStore == InitStoreTrack /\ [][NextStore]_vars

(* two calls on the activity store, interleaved at their awaits *)
SpecConcurrent == InitConcurrentTrack /\ [][NextStore]_vars

(* the scope track under the two performance lookups *)
SpecScope == InitScopeTrack /\ [][NextLookup]_vars

(* the percent track under the two performance lookups *)
SpecPercent == InitPercentTrack /\ [][NextLookup]_vars

(* both tracks of the roster ranking under its two forms *)
SpecRoster == (InitExamTrack \/ InitActivityTrack) /\ [][NextRoster]_vars
----------------------------------------------------------------------------
(* Properties *)

RosterRanked == op \in {"generateOverallExamRankings", "generateOverallActivityRankings"}
UnitRanked == op = "generateActivityRankings" /\ error = "none"

(* rankedStudents ++ unrankedStudents of a roster ranking *)
AllStudents == result.rankedStudents \o result.unrankedStudents

RosterRankOf(entry) ==
    IF op = "generateOverallExamRankings" THEN entry.overallExamRank
    ELSE entry.overallActivityRank

RosterIndex(id) == CHOOSE i \in DOMAIN roster : roster[i] = id

(* each student of the roster exactly once in a list of student ids *)
ExactlyOnce(ids) ==
    /\ Len(ids) = Len(roster)
    /\ \A i \in DOMAIN roster : \E j \in DOMAIN ids : ids[j] = roster[i]
    /\ \A j, k \in DOMAIN ids : ids[j] = ids[k] => j = k

IsRank(r, n) == r = Null \/ r \in 1..n

(* C1: totality of ranking.  The output of the roster ranking (ranked then  *)
(* unranked students) and of the unit ranking holds every student of the   *)
(* roster exactly once, each with a numeric rank or with rank null.        *)
C1_Totality ==
    /\ RosterRanked =>
          /\ ExactlyOnce([i \in DOMAIN AllStudents |-> AllStudents[i].id])
          /\ \A i \in DOMAIN AllStudents :
                IsRank(RosterRankOf(AllStudents[i]), Len(roster))
          /\ \A i \in DOMAIN result.rankedStudents :
                RosterRankOf(result.rankedStudents[i]) # Null
          /\ \A i \in DOMAIN result.unrankedStudents :
                RosterRankOf(result.unrankedStudents[i]) = Null
    /\ UnitRanked =>
          /\ ExactlyOnce([i \in DOMAIN result |-> result[i].studentId])
          /\ \A i \in DOMAIN result : IsRank(result[i].rank, Len(roster))

(* a time unit with a ranked student, a student left unranked with a       *)
(* numeric average, and a student without score                            *)
C1_Witness ==
    /\ UnitRanked
    /\ activities[arg].type = "time"
    /\ \E i, j, k \in DOMAIN result :
          /\ result[i].rank # Null
          /\ result[j].rank = Null /\ result[j].score # NoScore
          /\ result[k].rank = Null /\ result[k].score = NoScore

(* the scores of the ranked students of a roster ranking, as rationals *)
RankedScore(i) ==
    IF op = "generateOverallExamRankings"
    THEN Rat(result.rankedStudents[i].overallExamScore, 1)
    ELSE result.rankedStudents[i].overallActivityScore

(* C2: competition policy.  Ranked students are in descending order of     *)
(* overall score, and the rank of each is 1 + the number of ranked         *)
(* students with a strictly higher score, so equal scores share a rank.    *)
C2_CompetitionRanks ==
    RosterRanked =>
        LET n == Len(result.rankedStudents)
        IN  /\ \A i \in 1..(n - 1) : ~RatLess(RankedScore(i), RankedScore(i + 1))
            /\ \A i \in 1..n :
                  RosterRankOf(result.rankedStudents[i]) =
                      1 + Cardinality({j \in 1..n : RatLess(RankedScore(i), RankedScore(j))})

(* three ranked students, two sharing the highest score: ranks 1, 1, 3 *)
C2_Witness ==
    /\ op = "generateOverallExamRankings"
    /\ Len(result.rankedStudents) = 3
    /\ [i \in 1..3 |-> result.rankedStudents[i].overallExamRank] = <<1, 1, 3>>

(* the ranked entries of a unit ranking *)
UnitRankedEntries == SelectSeq(result, LAMBDA data : data.rank # Null)

(* C3: sequential policy.  The k ranked students of a unit have the ranks   *)
(* 1..k in list order, sorted by score (descending for point and stage,    *)
(* ascending for time); equal scores get consecutive ranks, the student    *)
(* earlier in the roster first.                                            *)
C3_SequentialRanks ==
    UnitRanked =>
        LET ranked == UnitRankedEntries
            k == Len(ranked)
        IN  /\ \A i \in 1..k : ranked[i].rank = i
            /\ \A i \in 1..(k - 1) :
                  IF activities[arg].type = "time"
                  THEN ~RatLess(ranked[i + 1].score, ranked[i].score)
                  ELSE ~RatLess(ranked[i].score, ranked[i + 1].score)
            /\ \A i \in 1..(k - 1) :
                  ranked[i].score = ranked[i + 1].score =>
                      RosterIndex(ranked[i].studentId) < RosterIndex(ranked[i + 1].studentId)

(* three ranked students, the first two with equal scores: ranks 1, 2, 3 *)
C3_Witness ==
    /\ UnitRanked
    /\ Len(UnitRankedEntries) = 3
    /\ UnitRankedEntries[1].score = UnitRankedEntries[2].score
    /\ UnitRankedEntries[2].score # UnitRankedEntries[3].score
    /\ UnitRankedEntries[2].rank = 2

(* the eligible categories of the ranked unit in which a student has a     *)
(* completion, read from the loaded rows                                   *)
CompletedCategories(studentId) ==
    {c \in {activities[arg].categories[i].id : i \in DOMAIN activities[arg].categories} :
        \E i \in DOMAIN activityCompletions[studentId] :
            activityCompletions[studentId][i].activityCategory = c}

(* C4: time-type gate.  In a time unit a student with completions in fewer *)
(* than 3 eligible categories has rank null whatever the average time, and *)
(* every ranked student has at least 3.                                    *)
C4_TimeGate ==
    (UnitRanked /\ activities[arg].type = "time") =>
        \A i \in DOMAIN result :
            (Cardinality(CompletedCategories(result[i].studentId)) < 3)
                <=> (result[i].rank = Null)

(* a student with two of three levels and a faster average than a ranked one *)
C4_Witness ==
    /\ UnitRanked
    /\ activities[arg].type = "time"
    /\ \E i, j \in DOMAIN result :
          /\ Cardinality(CompletedCategories(result[i].studentId)) = 2
          /\ result[i].rank = Null
          /\ result[j].rank = 1
          /\ RatLess(result[i].score, result[j].score)

(* the completions of exam e with the latest submittedAt among rows *)
LatestRows(rows, e) ==
    {rows[i] : i \in {k \in DOMAIN rows :
        /\ rows[k].exam = e
        /\ \A j \in DOMAIN rows :
              rows[j].exam = e => rows[j].submittedAt <= rows[k].submittedAt}}

ExamsOf(rows) == {rows[i].exam : i \in DOMAIN rows}

(* the sums of one latest completion's score per exam *)
RECURSIVE LatestSums(_, _)
LatestSums(rows, exams) ==
    IF exams = {} THEN {0}
    ELSE LET e == CHOOSE x \in exams : TRUE
         IN  {r.score + rest : r \in LatestRows(rows, e),
                               rest \in LatestSums(rows, exams \ {e})}

(* C5: exam deduplication.  In the overall exam ranking the score of a     *)
(* student is null without exam completion, and otherwise the sum over the *)
(* distinct exams of the score of the completion submitted last.           *)
C5_LatestExamSubmission ==
    op = "generateOverallExamRankings" =>
        \A i \in DOMAIN AllStudents :
            LET rows == examCompletions[AllStudents[i].id]
            IN  IF rows = <<>> THEN AllStudents[i].overallExamScore = Null
                ELSE AllStudents[i].overallExamScore \in LatestSums(rows, ExamsOf(rows))

(* a student with two submissions of one exam, the later one scoring       *)
(* differently, and a submission of another exam                           *)
C5_Witness ==
    /\ op = "generateOverallExamRankings"
    /\ \E s \in StudentIds : \E i, j, k \in DOMAIN examCompletions[s] :
          LET rows == examCompletions[s]
          IN  /\ rows[i].exam = rows[j].exam
              /\ rows[i].submittedAt < rows[j].submittedAt
              /\ rows[i].score > rows[j].score
              /\ rows[k].exam # rows[i].exam

(* C6: exam metrics use the latest submission.  The completion counted per *)
(* exam, and classified as passed or failed, is the one submitted last,    *)
(* whatever the order in which the completions were loaded.                *)
C6_LatestSubmissionCounted ==
    op = "generateOverallExamDetailedPerformance" =>
        LET rows == examCompletions[arg]
            exams == ExamsOf(rows)
        IN  /\ result.examsCompletedCount = Cardinality(exams)
            /\ \E f \in [exams -> Range(rows)] :
                  /\ \A e \in exams : f[e] \in LatestRows(rows, e)
                  /\ result.examsPassedCount =
                        Cardinality({e \in exams : f[e].score >= Exam(e).passingPoints})
                  /\ result.examsFailedCount =
                        Cardinality({e \in exams : f[e].score < Exam(e).passingPoints})

(* the sum of the values of a function with a finite domain *)
RECURSIVE SumFn(_)
SumFn(f) ==
    IF DOMAIN f = {} THEN 0
    ELSE LET x == CHOOSE y \in DOMAIN f : TRUE
         IN  f[x] + SumFn([y \in DOMAIN f \ {x} |-> f[y]])

(* the highest score among a student's completions in a category *)
BestScoreIn(studentId, c) ==
    LET rows == activityCompletions[studentId]
    IN  CHOOSE s \in {rows[i].score : i \in {k \in DOMAIN rows : rows[k].activityCategory = c}} :
            \A i \in DOMAIN rows : rows[i].activityCategory = c => rows[i].score <= s

(* C7: point aggregation.  In a point unit the score of a student is the   *)
(* sum, over the eligible categories with a completion, of the best score  *)
(* in the category (a category without completion adds 0), and it is null  *)
(* exactly when the student has no completion in any eligible category.    *)
C7_PointAggregation ==
    (UnitRanked /\ activities[arg].type = "point") =>
        \A i \in DOMAIN result :
            LET done == CompletedCategories(result[i].studentId)
            IN  IF done = {} THEN result[i].score = NoScore
                ELSE result[i].score =
                        Rat(SumFn([c \in done |-> BestScoreIn(result[i].studentId, c)]), 1)

(* levels 1 and 3 completed, level 2 not, and two attempts of different    *)
(* score at one level                                                      *)
C7_Witness ==
    /\ UnitRanked
    /\ activities[arg].type = "point"
    /\ \E i \in DOMAIN result :
          /\ CompletedCategories(result[i].studentId) = {1, 3}
          /\ \E j, k \in DOMAIN activityCompletions[result[i].studentId] :
                LET rows == activityCompletions[result[i].studentId]
                IN  /\ rows[j].activityCategory = rows[k].activityCategory
                    /\ rows[j].score < rows[k].score

(* the latest completion per category of a student, as the ranking reads it *)
LatestPerCategory(studentId) == FilteredActivityCompletions(activityCompletions[studentId])

(* the time activities of the teacher *)
TimeActivities == {a \in DOMAIN activities : activities[a].type = "time"}

(* 1 / (mean timeCompletedSeconds) of activity a when the student has       *)
(* completions at all three levels, 0 otherwise                            *)
ReciprocalMeanTime(studentId, a) ==
    LET mine == SelectSeq(LatestPerCategory(studentId),
                    LAMBDA com : ActivityOfCategory(com.activityCategory).id = activities[a].id)
        levels == {LevelOfCategory(mine[i].activityCategory) : i \in DOMAIN mine}
    IN  IF Cardinality(levels) = 3
        THEN RatInv(Rat(SumSeq([i \in DOMAIN mine |-> mine[i].timeCompletedSeconds]), 3))
        ELSE Rat(0, 1)

RECURSIVE RatSumFn(_)
RatSumFn(f) ==
    IF DOMAIN f = {} THEN Rat(0, 1)
    ELSE LET x == CHOOSE y \in DOMAIN f : TRUE
         IN  RatAdd(f[x], RatSumFn([y \in DOMAIN f \ {x} |-> f[y]]))

(* C8: reciprocal-time combination.  A time activity with completions at   *)
(* all three levels adds 1 / (mean of their timeCompletedSeconds) to the   *)
(* overall activity score, and one with fewer levels adds 0.               *)
C8_ReciprocalMeanTime ==
    op = "generateOverallActivityRankings" =>
        \A i \in DOMAIN result.rankedStudents :
            LET s == result.rankedStudents[i].id
            IN  result.rankedStudents[i].overallActivityScore =
                    RatAdd(Rat(TotalPointLevelScore(LatestPerCategory(s)), 1),
                           RatSumFn([a \in TimeActivities |-> ReciprocalMeanTime(s, a)]))

(* the part of C8 on incomplete time activities: completions at fewer than *)
(* three levels add nothing to the overall activity score                  *)
C8_IncompleteAddsNothing ==
    op = "generateOverallActivityRankings" =>
        \A i \in DOMAIN result.rankedStudents :
            LET s == result.rankedStudents[i].id
            IN  (\A a \in TimeActivities : ReciprocalMeanTime(s, a) = Rat(0, 1)) =>
                    result.rankedStudents[i].overallActivityScore =
                        Rat(TotalPointLevelScore(LatestPerCategory(s)), 1)

RosterScoreIsNull(entry) ==
    IF op = "generateOverallExamRankings" THEN entry.overallExamScore = Null
    ELSE entry.overallActivityScore = NoScore

NameNotAfter(idA, idB) == localeCompare(FullNameOf(idA), FullNameOf(idB)) <= 0

(* C9: unscored placement, competition policy.  In a roster ranking every  *)
(* student with a null overall score has rank null and comes after all     *)
(* scored students, and the unscored students are in ascending order of    *)
(* their full name.                                                        *)
C9_UnscoredByName ==
    RosterRanked =>
        /\ \A i \in DOMAIN AllStudents :
              RosterScoreIsNull(AllStudents[i]) =>
                  /\ RosterRankOf(AllStudents[i]) = Null
                  /\ \A j \in DOMAIN AllStudents :
                        ~RosterScoreIsNull(AllStudents[j]) => j < i
        /\ \A i, j \in DOMAIN AllStudents :
              (i < j /\ RosterScoreIsNull(AllStudents[i]) /\ RosterScoreIsNull(AllStudents[j]))
                  => NameNotAfter(AllStudents[i].id, AllStudents[j].id)

(* a scored student, then two unscored ones in the reverse of their roster *)
(* order                                                                   *)
C9_Witness ==
    /\ RosterRanked
    /\ Len(result.rankedStudents) >= 1
    /\ Len(result.unrankedStudents) >= 2
    /\ RosterIndex(result.unrankedStudents[1].id) > RosterIndex(result.unrankedStudents[2].id)
    /\ ~NameNotAfter(result.unrankedStudents[2].id, result.unrankedStudents[1].id)

UnitNullAfterRanked ==
    \A i, j \in DOMAIN result :
        (result[i].rank = Null /\ result[j].rank # Null) => j < i

----------------------------------------------------------------------------
(* Properties of the per-unit operations *)

UnitSummarized == op = "generateActivityWithCompletions" /\ error = "none"

(* the activity and the student a per-unit operation was called with *)
UnitOf == IF op = "generateActivityWithCompletions" THEN arg[1] ELSE arg
CategoriesOf == activities[UnitOf].categories

(* the category with this id is the latest updated of its level *)
LatestOfItsLevel(id) ==
    \E i \in DOMAIN CategoriesOf :
        /\ CategoriesOf[i].id = id
        /\ \A j \in DOMAIN CategoriesOf :
              CategoriesOf[j].level = CategoriesOf[i].level
                  => CategoriesOf[j].updatedAt <= CategoriesOf[i].updatedAt

LevelOfId(id) ==
    CategoriesOf[CHOOSE i \in DOMAIN CategoriesOf : CategoriesOf[i].id = id].level

(* C11: category-level deduplication.  The eligible categories have        *)
(* pairwise distinct levels, one for each level of the activity, each the  *)
(* latest updated of its level; the completions a ranking selects lie in   *)
(* such categories, no two at one level.                                   *)
C11_CategoryDedup ==
    /\ (UnitSummarized /\ activities[UnitOf].type \in {"point", "time"}) =>
          LET kept == result.categories
          IN  /\ \A i, j \in DOMAIN kept : kept[i].level = kept[j].level => i = j
              /\ {kept[i].level : i \in DOMAIN kept}
                    = {CategoriesOf[i].level : i \in DOMAIN CategoriesOf}
              /\ \A i \in DOMAIN kept :
                    /\ LatestOfItsLevel(kept[i].id)
                    /\ LevelOfId(kept[i].id) = kept[i].level
    /\ (UnitRanked /\ activities[UnitOf].type \in {"point", "time"}) =>
          \A e \in DOMAIN result :
              LET sel == result[e].completions
              IN  /\ \A k \in DOMAIN sel : LatestOfItsLevel(sel[k].activityCategory)
                  /\ \A k, l \in DOMAIN sel :
                        LevelOfId(sel[k].activityCategory) = LevelOfId(sel[l].activityCategory)
                            => k = l

(* two categories of one level, the one loaded later updated later and kept, *)
(* with a completion of the student in the one dropped                       *)
C11_Witness ==
    /\ UnitSummarized
    /\ activities[UnitOf].type = "point"
    /\ Len(result.categories) < Len(CategoriesOf)
    /\ \E i \in DOMAIN result.categories : \E j \in DOMAIN CategoriesOf :
          /\ CategoriesOf[j].level = result.categories[i].level
          /\ CategoriesOf[j].updatedAt < result.categories[i].updatedAt
          /\ CategoriesOf[j].id < result.categories[i].id
          /\ \E k \in DOMAIN activityCompletions[arg[2]] :
                activityCompletions[arg[2]][k].activityCategory = CategoriesOf[j].id

(* the categories of the unit in which the student has a completion *)
CompletedInUnit(studentId) ==
    {c \in {CategoriesOf[i].id : i \in DOMAIN CategoriesOf} :
        \E r \in Range(activityCompletions[studentId]) : r.activityCategory = c}

(* com is a best completion of the student in its category: no completion  *)
(* there scores higher, and none with the same score is faster             *)
BestInCategory(studentId, com) ==
    /\ com \in Range(activityCompletions[studentId])
    /\ \A r \in Range(activityCompletions[studentId]) :
          r.activityCategory = com.activityCategory =>
              /\ r.score <= com.score
              /\ r.score = com.score => com.timeCompletedSeconds <= r.timeCompletedSeconds

(* C12: point selection.  In every eligible category with a completion of  *)
(* the student the selected completion has the highest score there and,    *)
(* among those with that score, the lowest timeCompletedSeconds.           *)
C12_PointBestSelection ==
    /\ (UnitRanked /\ activities[UnitOf].type = "point") =>
          \A e \in DOMAIN result :
              LET sel == result[e].completions
              IN  /\ \A k \in DOMAIN sel : BestInCategory(result[e].studentId, sel[k])
                  /\ {sel[k].activityCategory : k \in DOMAIN sel}
                        = CompletedCategories(result[e].studentId)
    /\ (UnitSummarized /\ activities[UnitOf].type = "point") =>
          \A i \in DOMAIN result.categories :
              LET sel == result.categories[i].completions
              IN  IF result.categories[i].id \in CompletedInUnit(arg[2])
                  THEN /\ Len(sel) = 1
                       /\ sel[1].activityCategory = result.categories[i].id
                       /\ BestInCategory(arg[2], sel[1])
                  ELSE sel = <<>>

(* three attempts in one category: the selected one, a slower one of the   *)
(* same score loaded before it, and one as fast that scores less           *)
C12_Witness ==
    /\ UnitRanked
    /\ activities[UnitOf].type = "point"
    /\ \E e \in DOMAIN result : \E k \in DOMAIN result[e].completions :
          LET sel == result[e].completions[k]
              rows == activityCompletions[result[e].studentId]
          IN  \E i, j, l \in DOMAIN rows :
                  /\ rows[j] = sel /\ i < j
                  /\ rows[i].activityCategory = sel.activityCategory
                  /\ rows[i].score = sel.score
                  /\ rows[i].timeCompletedSeconds > sel.timeCompletedSeconds
                  /\ rows[l].activityCategory = sel.activityCategory
                  /\ rows[l].score < sel.score
                  /\ rows[l].timeCompletedSeconds <= sel.timeCompletedSeconds

(* the lowest timeCompletedSeconds of a student's completions in a category *)
FastestIn(studentId, c) ==
    LET rows == activityCompletions[studentId]
        times == {rows[i].timeCompletedSeconds :
                     i \in {k \in DOMAIN rows : rows[k].activityCategory = c}}
    IN  CHOOSE d \in times : \A x \in times : d <= x

(* C13: time selection and score.  In a time unit the selected completion  *)
(* of a category is a fastest one whatever its score, the score of a       *)
(* student is the mean of the selected times over the categories with a    *)
(* completion, null without any, and of two ranked students the one with   *)
(* the smaller score has the smaller rank.                                 *)
C13_TimeSelection ==
    (UnitRanked /\ activities[UnitOf].type = "time") =>
        /\ \A e \in DOMAIN result :
              LET s == result[e].studentId
                  sel == result[e].completions
                  done == CompletedCategories(s)
              IN  /\ {sel[k].activityCategory : k \in DOMAIN sel} = done
                  /\ \A k \in DOMAIN sel :
                        /\ sel[k] \in Range(activityCompletions[s])
                        /\ sel[k].timeCompletedSeconds
                              = FastestIn(s, sel[k].activityCategory)
                  /\ IF done = {} THEN result[e].score = NoScore
                     ELSE result[e].score =
                             Rat(SumFn([c \in done |-> FastestIn(s, c)]), Cardinality(done))
        /\ \A e, f \in DOMAIN result :
              (result[e].rank # Null /\ result[f].rank # Null
                  /\ RatLess(result[e].score, result[f].score))
                      => result[e].rank < result[f].rank

(* two ranked students of different mean time, one of them with a slower   *)
(* attempt of higher score than the selected one                           *)
C13_Witness ==
    /\ UnitRanked
    /\ activities[UnitOf].type = "time"
    /\ \E e, f \in DOMAIN result :
          /\ result[e].rank = 1 /\ result[f].rank = 2
          /\ RatLess(result[e].score, result[f].score)
          /\ \E k \in DOMAIN result[f].completions :
             \E r \in Range(activityCompletions[result[f].studentId]) :
                /\ r.activityCategory = result[f].completions[k].activityCategory
                /\ r.score > result[f].completions[k].score
                /\ r.timeCompletedSeconds > result[f].completions[k].timeCompletedSeconds

(* C14: stage selection and score.  In a stage unit with a category only   *)
(* the completions in the category updated last count: the score of a      *)
(* student is the highest score of their completions there, null without   *)
(* any, whatever they completed in the other categories; the selected      *)
(* completion is a best one of that category.                              *)
C14_StageSelection ==
    (UnitRanked /\ activities[UnitOf].type = "stage" /\ CategoriesOf # <<>>) =>
        \E t \in DOMAIN CategoriesOf :
            /\ \A j \in DOMAIN CategoriesOf :
                  CategoriesOf[j].updatedAt <= CategoriesOf[t].updatedAt
            /\ \A e \in DOMAIN result :
                  LET s == result[e].studentId
                      sel == result[e].completions
                      mine == {r \in Range(activityCompletions[s]) :
                                  r.activityCategory = CategoriesOf[t].id}
                  IN  /\ Range(sel) = mine
                      /\ IF mine = {} THEN result[e].score = NoScore
                         ELSE /\ BestInCategory(s, sel[1])
                              /\ result[e].score = Rat(sel[1].score, 1)

(* the category updated last was loaded second; the student scored more in *)
(* the category loaded first, and the score is that of the other one       *)
C14_Witness ==
    /\ UnitRanked
    /\ activities[UnitOf].type = "stage"
    /\ \E e \in DOMAIN result : \E r \in Range(activityCompletions[result[e].studentId]) :
          /\ Len(result[e].completions) = 1
          /\ result[e].completions[1].activityCategory = 2
          /\ r.activityCategory = 1
          /\ r.score > result[e].completions[1].score
          /\ result[e].score = Rat(result[e].completions[1].score, 1)
          /\ result[e].rank = 1
----------------------------------------------------------------------------
(* Properties of the summary of a student *)

StudentSummarized == op = "generateOverallActivityDetailedPerformance"

(* the levels of the activity's categories in which the student has a      *)
(* completion                                                              *)
CompletedLevels(studentId, activity) ==
    {activity.categories[c].level :
        c \in {k \in DOMAIN activity.categories :
                  \E r \in Range(activityCompletions[studentId]) :
                      r.activityCategory = activity.categories[k].id}}

EligibleLevels(activity) ==
    {activity.categories[c].level : c \in DOMAIN activity.categories}

(* C15 as stated: an activity is counted as completed iff the distinct     *)
(* completed levels are all the eligible levels (point, stage) or exactly  *)
(* 3 (time).                                                               *)
C15_CompletedAllLevels ==
    (StudentSummarized /\ \A a \in DOMAIN activities : activities[a].type \in GameTypes) =>
        result.activitiesCompletedCount =
            Cardinality({a \in DOMAIN activities :
                LET done == Cardinality(CompletedLevels(arg, activities[a]))
                IN  IF activities[a].type = "time" THEN done = 3
                    ELSE done = Cardinality(EligibleLevels(activities[a]))})

(* C15 amended: an activity is counted as completed iff the student has a  *)
(* completion in it and either it is a stage activity or the distinct      *)
(* completed levels are exactly 3.                                         *)
C15_CompletedStageOrThree ==
    StudentSummarized =>
        result.activitiesCompletedCount =
            Cardinality({a \in DOMAIN activities :
                LET done == Cardinality(CompletedLevels(arg, activities[a]))
                IN  /\ done > 0
                    /\ activities[a].type = "stage" \/ done = 3})

(* a stage activity of three levels counted with one level completed *)
C15_Witness ==
    /\ StudentSummarized
    /\ result.activitiesCompletedCount = 1
    /\ \E a \in DOMAIN activities :
          /\ activities[a].type = "stage"
          /\ Cardinality(EligibleLevels(activities[a])) = 3
          /\ Cardinality(CompletedLevels(arg, activities[a])) = 1
(* C16: no input mutation.  No operation changes the completion lists of   *)
(* the students or the category list of the activity it was given.         *)
C16_NoInputMutation ==
    [][/\ examCompletions' = examCompletions
       /\ activityCompletions' = activityCompletions
       /\ activities' = activities]_vars

(* the orders in which the elements of s can be loaded *)
Orders(s) ==
    {[i \in 1..Len(s) |-> s[p[i]]] :
        p \in {q \in [1..Len(s) -> 1..Len(s)] : \A i, j \in 1..Len(s) : q[i] = q[j] => i = j}}

(* C17: independence of completion order.  The overall exam score of every *)
(* student is the one computed from any other order of the same            *)
(* completions.                                                            *)
C17_CompletionOrderIndependent ==
    op = "generateOverallExamRankings" =>
        \A i \in DOMAIN AllStudents :
            \A other \in Orders(examCompletions[AllStudents[i].id]) :
                OverallExamScore(other) = AllStudents[i].overallExamScore

(* C18: determinism on re-run.  The second summary of a student over the   *)
(* same objects equals the first.                                          *)
C18_SameSummaryTwice ==
    op = "repeatOverallExamDetailedPerformance" => result[1] = result[2]

(* C19: zero eligible categories.  For an activity without categories the  *)
(* unit ranking and the unit summary return without error, every student   *)
(* with a null score and a null rank.                                      *)
C19_NoCategories ==
    (op \in {"generateActivityRankings", "generateActivityWithCompletions"}
        /\ CategoriesOf = <<>>) =>
            /\ error = "none"
            /\ op = "generateActivityRankings" =>
                  /\ Len(result) = Len(roster)
                  /\ \A e \in DOMAIN result :
                        result[e].score = NoScore /\ result[e].rank = Null
            /\ op = "generateActivityWithCompletions" =>
                  result.score = NoScore /\ result.categories = <<>>

(* the ranking of a stage activity without categories, for a roster with a *)
(* student who has completions elsewhere                                   *)
C19_Witness ==
    /\ op = "generateActivityRankings"
    /\ activities[UnitOf].type = "stage"
    /\ CategoriesOf = <<>>
    /\ Len(roster) > 0
    /\ \E s \in Range(roster) : activityCompletions[s] # <<>>

(* C20: unrecognized game type.  The unit ranking and the unit summary of  *)
(* an activity whose game type is none of point, time, stage end with an   *)
(* error.                                                                  *)
C20_UnknownTypeIsError ==
    (op \in {"generateActivityRankings", "generateActivityWithCompletions"}
        /\ activities[UnitOf].type \notin GameTypes) => error # "none"

----------------------------------------------------------------------------
(* The student performance lookups *)

Looked ==
    op \in {"getStudentPerformanceByPublicIdAndTeacherId",
            "getStudentPerformanceByStudentId"}

(* the student a lookup that found one was asked about *)
LookedStudent ==
    IF op = "getStudentPerformanceByStudentId" THEN arg
    ELSE CHOOSE s \in Range(roster) : PublicIdOf(s) = toUpperCase(arg[1])

(* the categories of the activities assigned to a student, as pairs of     *)
(* activity and category position                                          *)
AssignedCategories(student) ==
    {ac \in (DOMAIN activities) \X (1..3) :
        /\ activities[ac[1]].teacher = accounts[student].teacherUser
        /\ activities[ac[1]].status = "published"
        /\ ac[2] \in DOMAIN activities[ac[1]].categories}

(* C21: when the student has no assigned exam, or the assigned activities  *)
(* have no category at all, the lookup ends without an error and the       *)
(* completion percentage of that track is the NaN sentinel, whatever the   *)
(* number of completions of the student.                                   *)
C21_UndefinedPercentIsNaN ==
    (Looked /\ error # "NotFound") =>
        /\ (allExams = <<>>) =>
               error = "none" /\ result.overallExamCompletionPercent = NaN
        /\ (AssignedCategories(LookedStudent) = {}) =>
               error = "none" /\ result.overallActivityCompletionPercent = NaN

(* the teacher whose roster a lookup is scoped to: the one of the request, *)
(* or the one of the student when the request names the student by id      *)
LookedTeacher ==
    IF op = "getStudentPerformanceByStudentId" THEN accounts[arg].teacherUser
    ELSE arg[2]

(* the approved students of a teacher *)
ApprovedStudentsOf(teacherId) ==
    {s \in Range(roster) : /\ accounts[s].teacherUser = teacherId
                           /\ accounts[s].approvalStatus = "approved"}

(* whether the request of a lookup names an approved student of the teacher *)
LookedResolves ==
    IF op = "getStudentPerformanceByStudentId"
    THEN arg \in Range(roster) /\ arg \in ApprovedStudentsOf(accounts[arg].teacherUser)
    ELSE \E s \in ApprovedStudentsOf(arg[2]) : PublicIdOf(s) = toUpperCase(arg[1])

(* C22: a lookup that names no approved student of the teacher ends with   *)
(* NotFound and hands no students to a ranking; any other lookup ranks     *)
(* exactly the approved students of that teacher, the target first and     *)
(* once, and no student of another teacher.                                *)
C22_TeacherScoping ==
    Looked =>
        IF ~LookedResolves
        THEN error = "NotFound" /\ rankingInputs = <<>> /\ result = <<>>
        ELSE /\ error # "NotFound"
             /\ rankingInputs # <<>>
             /\ \A k \in DOMAIN rankingInputs :
                    /\ rankingInputs[k][1] = LookedStudent
                    /\ Range(rankingInputs[k]) = ApprovedStudentsOf(LookedTeacher)
                    /\ Len(rankingInputs[k]) = Cardinality(Range(rankingInputs[k]))
             /\ error = "none" => result.id = LookedStudent

(* a summary of a student with an approved peer, while the other teacher   *)
(* has an approved student too                                             *)
C22_Witness ==
    /\ op = "getStudentPerformanceByPublicIdAndTeacherId"
    /\ error = "none"
    /\ Len(rankingInputs) = 2
    /\ Len(rankingInputs[1]) = 2
    /\ \E s \in Range(roster) : /\ accounts[s].teacherUser # arg[2]
                                 /\ accounts[s].approvalStatus = "approved"
    /\ result.overallExamRank # Null

(* the levels of the assigned activities in which the student has a        *)
(* completion, as pairs of activity and level                              *)
AssignedLevelsDone(student) ==
    {<<ac[1], activities[ac[1]].categories[ac[2]].level>> :
        ac \in {x \in AssignedCategories(student) :
                   \E i \in DOMAIN activityCompletions[student] :
                       activityCompletions[student][i].activityCategory =
                           activities[x[1]].categories[x[2]].id}}

(* C23: when the assigned activities have a category, the activity         *)
(* completion percent is 100 times the number of distinct levels of the    *)
(* assigned activities the student has completed over the number of their  *)
(* categories, to two decimals, and lies between 0 and 100 (in hundredths: *)
(* 0 and 10000), also with completions outside the assigned activities.    *)
C23_ActivityPercent ==
    (Looked /\ error = "none" /\ AssignedCategories(LookedStudent) # {}) =>
        LET done == Cardinality(AssignedLevelsDone(LookedStudent))
            total == Cardinality(AssignedCategories(LookedStudent))
        IN  /\ result.overallActivityCompletionPercent =
                   (((done * 100000) \div total) + 5) \div 10
            /\ result.overallActivityCompletionPercent \in 0..10000

----------------------------------------------------------------------------
(* The two per-unit paths *)

(* C24: the score generateActivityWithCompletions returns for a student is *)
(* the score generateActivityRankings computes for that student on the     *)
(* same activity and completions, for every game type.                     *)
C24_ScoresAgree ==
    UnitSummarized =>
        LET rankings == ActivityRankings(activities[UnitOf], roster)
        IN  \A e \in DOMAIN rankings :
                rankings[e].studentId = arg[2] => rankings[e].score = result.score

----------------------------------------------------------------------------
(* The activity store *)

(* C25: no two activities of one teacher have the same orderNumber, after  *)
(* any creates and updates, two calls interleaved at their awaits included. *)
C25_UniqueOrderNumbers ==
    \A a, b \in activityRepo :
        (a.id # b.id /\ a.teacher = b.teacher) => a.orderNumber # b.orderNumber

(* the calls of one operation that have ended *)
Ended(operation) ==
    {p \in DOMAIN calls : calls[p].op = operation /\ calls[p].pc = "done"}

(* the activity a call named, in the tables the call started from *)
NamedActivities(call) ==
    {a \in call.before.activities : a.slug = call.slug /\ a.teacher = call.teacherId}

CategoryIdsBefore(call) ==
    {c.id : c \in {x \in call.before.categories :
                      \E a \in NamedActivities(call) : x.activity = a.id}}

(* whether the request names a category the activity does not have *)
HasUnmatchedCategory(call) ==
    \E k \in DOMAIN call.dto.categories :
        call.dto.categories[k].id \notin CategoryIdsBefore(call)

(* C26: an update that ends with NotFound, with the order-number Conflict, *)
(* with a BadRequest of the checks, or with the error of a category of the *)
(* request that matches no category of the activity, has deleted and       *)
(* modified nothing: every table is as the call found it.                  *)
C26_UpdateErrorLeavesStore ==
    \A p \in Ended("update") :
        (\/ calls[p].error \in {"NotFound", "Conflict", "BadRequest"}
         \/ calls[p].error = "TypeError" /\ HasUnmatchedCategory(calls[p]))
            => Snapshot = calls[p].before

(* C27: deleteBySlug ends with NotFound when the slug names no activity of *)
(* the teacher, with BadRequest when a completion exists in a category of  *)
(* the activity, the tables left as they were in both cases; otherwise it  *)
(* returns true and the activity, and no other, is gone, no completion     *)
(* having referred to its categories.                                      *)
C27_DeleteProtectsCompletions ==
    \A p \in Ended("deleteBySlug") :
        LET call == calls[p]
            referenced == \E com \in call.before.completions :
                              com.activityCategory \in CategoryIdsBefore(call)
        IN  IF NamedActivities(call) = {}
            THEN call.error = "NotFound" /\ Snapshot = call.before
            ELSE IF referenced
            THEN call.error = "BadRequest" /\ Snapshot = call.before
            ELSE /\ call.error = "none"
                 /\ call.affected
                 /\ activityRepo = call.before.activities \ NamedActivities(call)
                 /\ activityCategoryCompletionRepo = call.before.completions

(* a refused delete of an activity with a completion, and nothing else     *)
(* than a delete of an activity without one having removed a row           *)
C27_Witness ==
    \E p \in Ended("deleteBySlug") :
        /\ calls[p].error = "BadRequest"
        /\ calls[p].slug = "a"
        /\ \E a \in activityRepo : a.slug = "a"
        /\ \E com \in activityCategoryCompletionRepo : com.activityCategory = 2
====
